---- MODULE Spec2Model ----
(***************************************************************************)
(* Horizon Sort: the list-processing engine of the browser toolkit.        *)
(*                                                                         *)
(* A JavaScript string is modelled as a sequence of one-character strings, *)
(* so that split, trim, join and the template literals are computed, not   *)
(* assumed.  A line list (string[]) is a sequence of such sequences.       *)
(***************************************************************************)
EXTENDS Integers, Sequences, FiniteSets, TLC

(***************************************************************************)
(* Bounds of the model.                                                    *)
(***************************************************************************)
\* Most raw lines of a text typed or pasted into a textarea.
MaxLines == 5
\* Largest position the range slider of the Batcher is dragged to.
MaxSlider == 4
\* Most raw lines of a generated text handed to processedData on its own.
MaxHarnessLines == 33
\* Largest inputValue handed to processedData on its own.
MaxHarnessValue == 27
\* How many values from 0 downwards are handed to processedData on its own.
DegenerateValues == 2
\* Largest set id handed to getAlphaLabel on its own.
MaxAlphaIndex == 730

(***************************************************************************)
(* Strings.                                                                *)
(***************************************************************************)
LF == "\n"

\* The characters String.prototype.trim removes that occur in the inputs.
WhiteSpace == {" ", "\t", "\r", "\n"}

Max(a, b) == IF a >= b THEN a ELSE b

Min(a, b) == IF a <= b THEN a ELSE b

\* Math.floor where the code has Math.ceil.
MutFloor(a, b) == a \div b

\* Math.ceil(a / b) for a >= 0 and b >= 1.
Ceil(a, b) == (a + b - 1) \div b

\* Array.prototype.slice(from, to): a relative index below 0 counts from the
\* end, both ends are clamped to the array, and to <= from gives [].
RelIndex(k, n) == IF k < 0 THEN Max(n + k, 0) ELSE Min(k, n)

Slice(s, from, to) ==
  LET a == RelIndex(from, Len(s))
      b == RelIndex(to, Len(s))
  IN  IF b <= a THEN << >> ELSE SubSeq(s, a + 1, b)

\* The position of the first line feed of text at or after position from
\* (there is one).
FirstLFFrom(text, from) ==
  CHOOSE k \in from..Len(text) : text[k] = LF /\ \A o \in from..(k - 1) : text[o] # LF

RECURSIVE SplitAt(_, _)
\* The pieces of text from position from on.
SplitAt(text, from) ==
  IF \A k \in from..Len(text) : text[k] # LF
  THEN << SubSeq(text, from, Len(text)) >>
  ELSE << SubSeq(text, from, FirstLFFrom(text, from) - 1) >>
         \o SplitAt(text, FirstLFFrom(text, from) + 1)

\* text.split(/\n/): the pieces between line feeds, one more than there are
\* line feeds; '' gives [''].
Split(text) == SplitAt(text, 1)

\* Trim that takes off one character at each end at most.
MutTrimOnce(l) ==
  LET from == IF Len(l) >= 1 /\ l[1] \in WhiteSpace THEN 2 ELSE 1
      to == IF Len(l) >= from /\ l[Len(l)] \in WhiteSpace THEN Len(l) - 1 ELSE Len(l)
  IN  SubSeq(l, from, to)

\* l.trim(): l without its leading and trailing white space.
Trim(l) ==
  LET keep == { k \in 1..Len(l) : l[k] \notin WhiteSpace }
  IN  IF keep = {} THEN << >>
      ELSE LET first == CHOOSE m \in keep : \A o \in keep : m <= o
               last == CHOOSE m \in keep : \A o \in keep : m >= o
           IN  SubSeq(l, first, last)

\* MapTrim that leaves the pieces as they are.
MutMapNoTrim(ls) == ls

\* .map(l => l.trim())
MapTrim(ls) == [ k \in 1..Len(ls) |-> Trim(ls[k]) ]

\* .filter(l => l !== '')
FilterNonEmpty(ls) == SelectSeq(ls, LAMBDA l : l # << >>)

\* Normalize without the filter.
MutNormalizeKeepBlank(text) == MapTrim(Split(text))

\* inputText.split(/\n/).map(l => l.trim()).filter(l => l !== '')
Normalize(text) == FilterNonEmpty(MapTrim(Split(text)))

RECURSIVE Join(_, _)
\* Array.prototype.join(sep) of strings.
Join(ls, sep) ==
  IF Len(ls) = 0 THEN << >>
  ELSE IF Len(ls) = 1 THEN ls[1]
  ELSE ls[1] \o sep \o Join(Tail(ls), sep)

RECURSIVE Concat(_)
\* The items of a list of lists, one after the other.
Concat(lls) == IF Len(lls) = 0 THEN << >> ELSE lls[1] \o Concat(Tail(lls))

(***************************************************************************)
(* Batcher (components/Analyzer.tsx, second component of the file).        *)
(***************************************************************************)
VARIABLES batcherInputText, mode, namingScheme, inputValue, useIndexing, prefix

\* One evaluation of the useMemo callback, statement by statement, with its
\* local variables: [pc, lines, setSize, i, sets].
VARIABLE memo

\* The last navigator.clipboard.writeText of copySet: the index of the set
\* whose button was clicked (-1: none yet) and the text written.
VARIABLE clipboardWrite

\* One call of getAlphaLabel: [pc, index, label].
VARIABLE alphaCall

\* Analyzer (first component of the same file): the textarea's text and the
\* stored AnalysisResult, << >> for null and << r >> for the result r.
VARIABLES analyzerInputText, result

\* Comparator (third component of the same file): the two textareas and the
\* stored ComparisonResult, << >> for null and << r >> for the result r.
VARIABLES listA, listB, comparisonResult

\* The line normalization of one tool applied to a text, and once more to its
\* own lines written out as text: [pc, tool, text, lines, again].
VARIABLE normalizeCall

\* One invocation of categorizeTitles (services/geminiService.ts): its
\* arguments, the requests it has issued, and how its promise has settled.
VARIABLE categorize

\* App (App.tsx, and its password-gated build src/unnamed/part_000): the
\* useState values of the component, which build it is, and its phase:
\* "rendered" before the useEffect of the mount has run, "loaded" after it,
\* "crashed" once a render has thrown (no error boundary: index.tsx renders
\* <App /> bare, so React unmounts the whole tree), "idle" where App is not
\* followed.
VARIABLE app

\* localStorage.getItem('horizon_gemini_key'): << >> for null, else << s >>.
VARIABLE localStorage

\* TopicSorter (components/TopicSorter.tsx) as mounted in the TOPICS view:
\* inputText, categories (<< >> for undefined, else << v >>), loading, and
\* error (<< >> for null, else << message >>).
VARIABLE topicSorter

\* The invocations of categorizeTitles which TopicSorter awaits, oldest
\* first: the invocation, and whether the instance of TopicSorter that made
\* it is still mounted.
VARIABLE calls

appVars == << app, localStorage, topicSorter, calls >>

batcherVars == << batcherInputText, mode, namingScheme, inputValue, useIndexing, prefix >>

comparatorVars == << listA, listB, comparisonResult >>

analyzerVars == << analyzerInputText, result >>

\* What no handler of the Batcher component writes.
notBatcherVars ==
  << memo, clipboardWrite, alphaCall, analyzerVars, comparatorVars, normalizeCall, categorize,
     appVars >>

\* What the useMemo callback of the Batcher does not write.
notMemoVars ==
  << batcherVars, clipboardWrite, alphaCall, analyzerVars, comparatorVars, normalizeCall, categorize,
     appVars >>

\* What getAlphaLabel does not write.
notAlphaVars ==
  << batcherVars, memo, clipboardWrite, analyzerVars, comparatorVars, normalizeCall, categorize,
     appVars >>

\* What copySet does not write.
notClipboardVars ==
  << batcherVars, memo, alphaCall, analyzerVars, comparatorVars, normalizeCall, categorize,
     appVars >>

\* What no handler of the Analyzer component writes.
notAnalyzerVars ==
  << batcherVars, memo, clipboardWrite, alphaCall, comparatorVars, normalizeCall, categorize,
     appVars >>

\* What no handler of the Comparator component writes.
notComparatorVars ==
  << batcherVars, memo, clipboardWrite, alphaCall, analyzerVars, normalizeCall, categorize,
     appVars >>

\* What the normalization does not write.
notNormalizeVars ==
  << batcherVars, memo, clipboardWrite, alphaCall, analyzerVars, comparatorVars, categorize,
     appVars >>

\* What categorizeTitles does not write.
notCategorizeVars ==
  << batcherVars, memo, clipboardWrite, alphaCall, analyzerVars, comparatorVars, normalizeCall,
     appVars >>

\* What neither App nor TopicSorter writes.
notAppVars ==
  << batcherVars, memo, clipboardWrite, alphaCall, analyzerVars, comparatorVars, normalizeCall,
     categorize >>

\* App after its first render: the initial values of useState.  The
\* password fields exist in part_000 only and keep these values in App.tsx.
AppStart(build) ==
  [ build |-> build, phase |-> "rendered", currentView |-> "ANALYZER", mobileMenuOpen |-> FALSE,
    apiKey |-> << >>, isKeyModalOpen |-> FALSE, tempKey |-> << >>, showKey |-> FALSE,
    isAIUnlocked |-> FALSE, isPasswordModalOpen |-> FALSE, passwordInput |-> << >>,
    passwordError |-> FALSE ]

\* TopicSorter as mounted: useState(''), useState([]), useState(false),
\* useState(null).
TopicSorterStart ==
  [ inputText |-> << >>, categories |-> << [ t |-> "array", items |-> << >> ] >>,
    loading |-> FALSE, error |-> << >> ]

\* App not followed.
AppIdle ==
  /\ app = [ AppStart("App.tsx") EXCEPT !.phase = "idle" ]
  /\ localStorage = << >>
  /\ topicSorter = TopicSorterStart
  /\ calls = << >>

\* The Analyzer as mounted.
AnalyzerInit ==
  /\ analyzerInputText = << >>
  /\ result = << >>

\* The Comparator as mounted.
ComparatorInit ==
  /\ listA = << >>
  /\ listB = << >>
  /\ comparisonResult = << >>

NoNormalizeCall ==
  [ pc |-> "idle", tool |-> "none", text |-> << >>, lines |-> << >>, again |-> << >> ]

\* categorizeTitles not called: no request issued, no promise.
\* pc, the two arguments, the requests issued, what the await settled with
\* (<< >> before it has), the console.error calls, and the promise: settled,
\* value (<< >> or << v >>) and error.
NotCategorizing ==
  [ pc |-> "idle", titles |-> << >>, apiKey |-> << >>, requests |-> << >>,
    response |-> << >>, logged |-> 0,
    outcome |-> [ settled |-> "none", value |-> << >>, error |-> "" ] ]

\* Nothing normalized on its own and no call of the service.
ServicesIdle ==
  /\ normalizeCall = NoNormalizeCall
  /\ categorize = NotCategorizing

MemoIdle == [ pc |-> "idle", lines |-> << >>, setSize |-> 20, i |-> 0, sets |-> << >> ]

NothingCopied == [ setIndex |-> -1, text |-> << >> ]

NoAlphaCall == [ pc |-> "idle", index |-> 0, label |-> << >> ]

\* Raw lines the user types into the Batcher's textarea.
BatcherRawLines == { << >>, << "a" >>, << " ", "b", "\r" >> }

\* The preset quick buttons.
Presets == {10, 20, 50, 100}

\* Values of the custom prefix text field.
Prefixes == { << >>, << "P" >> }

\* SetSizeOf with the two modes taken for each other.
MutSetSizeOfSwapped(m, value, n) ==
  IF m = "count" THEN Max(1, value)
  ELSE LET targetSets == Max(1, value) IN Ceil(n, targetSets)

\* SetSizeOf without Math.max in the 'size' branch.
MutSetSizeOfNoClamp(m, value, n) ==
  IF m = "size" THEN value
  ELSE LET targetSets == Max(1, value) IN Ceil(n, targetSets)

\* let setSize = 20; if (mode === 'size') ... else ...
SetSizeOf(m, value, n) ==
  IF m = "size" THEN Max(1, value)
  ELSE LET targetSets == Max(1, value) IN Ceil(n, targetSets)

\* One iteration of: for (let i = 0; i < lines.length; i += setSize) sets.push(...)
LoopCond(st, lines) == st.i < Len(lines)

\* LoopBody with lines.slice(i, setSize).
MutLoopBodySliceEnd(st, lines, setSize) ==
  [ st EXCEPT !.i = st.i + setSize,
              !.sets = Append(st.sets, [ id |-> Len(st.sets),
                                         items |-> Slice(lines, st.i, setSize) ]) ]

LoopBody(st, lines, setSize) ==
  [ st EXCEPT !.i = st.i + setSize,
              !.sets = Append(st.sets, [ id |-> Len(st.sets),
                                         items |-> Slice(lines, st.i, st.i + setSize) ]) ]

RECURSIVE RunLoop(_, _, _)
RunLoop(st, lines, setSize) ==
  IF LoopCond(st, lines) THEN RunLoop(LoopBody(st, lines, setSize), lines, setSize)
  ELSE st

\* The useMemo value of the Batcher.
processedData(text, m, value) ==
  LET lines == Normalize(text)
  IN  IF Len(lines) = 0 THEN [ sets |-> << >>, totalItems |-> 0 ]
      ELSE [ sets |-> RunLoop([ i |-> 0, sets |-> << >> ], lines,
                              SetSizeOf(m, value, Len(lines))).sets,
             totalItems |-> Len(lines) ]

BatcherInit ==
  /\ batcherInputText = << >>
  /\ mode = "size"
  /\ namingScheme = "numeric"
  /\ inputValue = 20
  /\ useIndexing = TRUE
  /\ prefix = << >>

\* onChange of the textarea, the user having typed or pasted one more raw line
\* at the end of the text (the first one into the empty field).
TypeBatcherInput ==
  /\ \E l \in BatcherRawLines :
       \/ /\ batcherInputText = << >>
          /\ batcherInputText' = l
       \/ /\ Len(Split(batcherInputText)) < MaxLines
          /\ batcherInputText' = batcherInputText \o << LF >> \o l
  /\ UNCHANGED << mode, namingScheme, inputValue, useIndexing, prefix >>
  /\ UNCHANGED notBatcherVars

\* onChange of the textarea, the user having deleted the whole text.
ClearBatcherInput ==
  /\ batcherInputText' = << >>
  /\ UNCHANGED << mode, namingScheme, inputValue, useIndexing, prefix >>
  /\ UNCHANGED notBatcherVars

\* The two mode buttons.
SetMode ==
  /\ \E m \in {"size", "count"} : mode' = m
  /\ UNCHANGED << batcherInputText, namingScheme, inputValue, useIndexing, prefix >>
  /\ UNCHANGED notBatcherVars

\* The range slider: parseInt of a value between min="1" and max="500".
SetSlider ==
  /\ \E v \in 1..MaxSlider : inputValue' = v
  /\ UNCHANGED << batcherInputText, mode, namingScheme, useIndexing, prefix >>
  /\ UNCHANGED notBatcherVars

\* A preset quick button.
SetPreset ==
  /\ \E v \in Presets : inputValue' = v
  /\ UNCHANGED << batcherInputText, mode, namingScheme, useIndexing, prefix >>
  /\ UNCHANGED notBatcherVars

\* The two label buttons.
SetNamingScheme ==
  /\ \E s \in {"numeric", "alpha"} : namingScheme' = s
  /\ UNCHANGED << batcherInputText, mode, inputValue, useIndexing, prefix >>
  /\ UNCHANGED notBatcherVars

\* The Number Items checkbox.
SetUseIndexing ==
  /\ \E b \in BOOLEAN : useIndexing' = b
  /\ UNCHANGED << batcherInputText, mode, namingScheme, inputValue, prefix >>
  /\ UNCHANGED notBatcherVars

\* The Custom Prefix field.
SetPrefix ==
  /\ \E p \in Prefixes : prefix' = p
  /\ UNCHANGED << batcherInputText, mode, namingScheme, inputValue, useIndexing >>
  /\ UNCHANGED notBatcherVars

BatcherNext ==
  \/ TypeBatcherInput
  \/ ClearBatcherInput
  \/ SetMode
  \/ SetSlider
  \/ SetPreset
  \/ SetNamingScheme
  \/ SetUseIndexing
  \/ SetPrefix

(***************************************************************************)
(* processedData on its own: the callback of useMemo run statement by      *)
(* statement on generated inputs, inputValue <= 0 included (the slider     *)
(* itself never produces one).                                             *)
(***************************************************************************)
PatternLines == << << "a" >>, << " ", "b", "\r" >>, << >>, << "c" >> >>

\* The text of k raw lines that repeat the pattern.
HarnessText(k) ==
  Join([ n \in 1..k |-> PatternLines[((n - 1) % Len(PatternLines)) + 1] ], << LF >>)

HarnessTexts == { HarnessText(k) : k \in 0..MaxHarnessLines }

HarnessValues == (1 - DegenerateValues)..MaxHarnessValue

\* if (lines.length === 0) return ...; let setSize = 20; if (mode === 'size') ...
MemoEnter(st, m, value) ==
  IF Len(st.lines) = 0
  THEN [ st EXCEPT !.pc = "done" ]
  ELSE [ st EXCEPT !.pc = "loop", !.setSize = SetSizeOf(m, value, Len(st.lines)) ]

\* The statements between const lines = ... and the loop.
MemoStart ==
  /\ memo.pc = "idle"
  /\ memo' = MemoEnter(memo, mode, inputValue)
  /\ UNCHANGED notMemoVars

\* One iteration of the for loop.  No run of the code makes more sets than
\* there are lines; the guard stops the model where a broken loop would not.
MemoStep ==
  /\ memo.pc = "loop"
  /\ LoopCond(memo, memo.lines)
  /\ Len(memo.sets) <= MaxHarnessLines
  /\ memo' = LoopBody(memo, memo.lines, memo.setSize)
  /\ UNCHANGED notMemoVars

\* return { sets, totalItems: lines.length }
MemoReturn ==
  /\ memo.pc = "loop"
  /\ ~ LoopCond(memo, memo.lines)
  /\ memo' = [ memo EXCEPT !.pc = "done" ]
  /\ UNCHANGED notMemoVars

\* The callback has just computed const lines = inputText.split(...)...
PartitionInit ==
  /\ batcherInputText \in HarnessTexts
  /\ memo = [ MemoIdle EXCEPT !.lines = Normalize(batcherInputText) ]
  /\ mode \in {"size", "count"}
  /\ inputValue \in HarnessValues
  /\ namingScheme = "numeric"
  /\ useIndexing = TRUE
  /\ prefix = << >>
  /\ clipboardWrite = NothingCopied
  /\ alphaCall = NoAlphaCall
  /\ AnalyzerInit
  /\ ComparatorInit
  /\ ServicesIdle
  /\ AppIdle

PartitionNext ==
  \/ MemoStart
  \/ MemoStep
  \/ MemoReturn

vars ==
  << batcherVars, memo, clipboardWrite, alphaCall, analyzerVars, comparatorVars,
     normalizeCall, categorize, appVars >>

\* The Batcher as mounted.
BatcherMounted ==
  /\ BatcherInit
  /\ memo = MemoIdle
  /\ clipboardWrite = NothingCopied
  /\ alphaCall = NoAlphaCall
  /\ AnalyzerInit
  /\ ComparatorInit
  /\ ServicesIdle
  /\ AppIdle

SpecBatcher == BatcherMounted /\ [][BatcherNext]_vars

\* The callback runs to completion within one render: nothing suspends it.
SpecPartition == PartitionInit /\ [][PartitionNext]_vars /\ WF_vars(PartitionNext)

(***************************************************************************)
(* Set labels: getAlphaLabel on its own.                                   *)
(***************************************************************************)
UpperCase ==
  << "A", "B", "C", "D", "E", "F", "G", "H", "I", "J", "K", "L", "M",
     "N", "O", "P", "Q", "R", "S", "T", "U", "V", "W", "X", "Y", "Z" >>

\* String.fromCharCode(c) for the codes 65..90.
FromCharCode(c) == UpperCase[c - 64]

RECURSIVE AlphaLoop(_, _)
\* while (i > 0) { remainder = (i - 1) % 26; label = ... + label; i = floor((i - 1) / 26) }
AlphaLoop(i, label) ==
  IF i > 0
  THEN AlphaLoop((i - 1) \div 26, << FromCharCode(65 + ((i - 1) % 26)) >> \o label)
  ELSE label

RECURSIVE MutAlphaLoopPositional(_, _)
\* The loop with i % 26 and floor(i / 26): positional base 26.
MutAlphaLoopPositional(i, label) ==
  IF i > 0
  THEN MutAlphaLoopPositional(i \div 26, << FromCharCode(65 + (i % 26)) >> \o label)
  ELSE label

MutGetAlphaLabelPositional(index) == MutAlphaLoopPositional(index + 1, << >>)

getAlphaLabel(index) == AlphaLoop(index + 1, << >>)

\* `Set ${set.id + 1}` or `Set ${getAlphaLabel(set.id)}`, without the "Set ".
AlphaCall ==
  /\ alphaCall.pc = "call"
  /\ alphaCall' = [ alphaCall EXCEPT !.pc = "returned", !.label = getAlphaLabel(alphaCall.index) ]
  /\ UNCHANGED notAlphaVars

AlphaInit ==
  /\ BatcherInit
  /\ memo = MemoIdle
  /\ clipboardWrite = NothingCopied
  /\ alphaCall \in { [ pc |-> "call", index |-> n, label |-> << >> ] : n \in 0..MaxAlphaIndex }
  /\ AnalyzerInit
  /\ ComparatorInit
  /\ ServicesIdle
  /\ AppIdle

AlphaNext == AlphaCall

SpecAlpha == AlphaInit /\ [][AlphaNext]_vars

(***************************************************************************)
(* Copying one set: copySet on its own, on the sets the Batcher renders.   *)
(***************************************************************************)
Digits == << "0", "1", "2", "3", "4", "5", "6", "7", "8", "9" >>

RECURSIVE ToDecimal(_)
\* `${n}` for an integer n >= 0.
ToDecimal(n) ==
  IF n < 10 THEN << Digits[n + 1] >>
  ELSE ToDecimal(n \div 10) \o << Digits[(n % 10) + 1] >>

RECURSIVE DecimalValue(_)
\* The number a string of decimal digits writes.
DecimalValue(ds) ==
  IF Len(ds) = 0 THEN 0
  ELSE 10 * DecimalValue(SubSeq(ds, 1, Len(ds) - 1))
         + ((CHOOSE k \in 1..10 : Digits[k] = ds[Len(ds)]) - 1)

RECURSIVE MutGetFormattedCountInclusive(_, _)
\* getFormattedCount with i <= setIndex.
MutGetFormattedCountInclusive(setIndex, sets) ==
  IF setIndex < 0 THEN 0
  ELSE Len(sets[setIndex + 1].items) + MutGetFormattedCountInclusive(setIndex - 1, sets)

RECURSIVE getFormattedCount(_, _)
\* for (let i = 0; i < setIndex; i++) prevCount += sets[i].items.length
getFormattedCount(setIndex, sets) ==
  IF setIndex <= 0 THEN 0
  ELSE Len(sets[setIndex].items) + getFormattedCount(setIndex - 1, sets)

\* The text copySet hands to navigator.clipboard.writeText.
copySet(items, offset) ==
  Join([ k \in 1..Len(items) |->
           (IF useIndexing THEN ToDecimal(offset + (k - 1) + 1) \o << ".", " " >> ELSE << >>)
           \o (IF prefix # << >> THEN prefix \o << " " >> ELSE << >>)
           \o items[k] ],
       << LF >>)

\* The index shown before item i (0-based) of set idx: `${currentOffset + i + 1}.`
displayedIndex(idx, i, sets) == getFormattedCount(idx, sets) + i + 1

\* onClick of the Copy Set button of one rendered set: copySet(set.items, currentOffset).
\* One click is followed: a later one overwrites the text in the same way.
CopySet ==
  /\ clipboardWrite = NothingCopied
  /\ \E data \in { processedData(batcherInputText, mode, inputValue) } :
       \E idx \in 0..(Len(data.sets) - 1) :
         clipboardWrite' =
           [ setIndex |-> idx,
             text |-> copySet(data.sets[idx + 1].items, getFormattedCount(idx, data.sets)) ]
  /\ UNCHANGED notClipboardVars

\* The Batcher with some text and some settings, nothing copied yet.
CopyInit ==
  /\ batcherInputText \in HarnessTexts
  /\ mode \in {"size", "count"}
  /\ inputValue \in (1..MaxSlider) \cup Presets
  /\ namingScheme = "numeric"
  /\ useIndexing \in BOOLEAN
  /\ prefix \in Prefixes
  /\ memo = MemoIdle
  /\ clipboardWrite = NothingCopied
  /\ alphaCall = NoAlphaCall
  /\ AnalyzerInit
  /\ ComparatorInit
  /\ ServicesIdle
  /\ AppIdle

CopyNext == CopySet

SpecCopy == CopyInit /\ [][CopyNext]_vars

(***************************************************************************)
(* Analyzer (components/Analyzer.tsx, first component of the file).        *)
(***************************************************************************)
\* Most raw lines of a text handed to handleAnalyze.
MaxAnalyzerLines == 4

LowerCase ==
  << "a", "b", "c", "d", "e", "f", "g", "h", "i", "j", "k", "l", "m",
     "n", "o", "p", "q", "r", "s", "t", "u", "v", "w", "x", "y", "z" >>

Range(s) == { s[k] : k \in 1..Len(s) }

IndexIn(s, c) == CHOOSE k \in 1..Len(s) : s[k] = c

\* c.charCodeAt(0) for the characters of the inputs.
CodeUnit(c) ==
  CASE c \in Range(Digits) -> 47 + IndexIn(Digits, c)
    [] c \in Range(UpperCase) -> 64 + IndexIn(UpperCase, c)
    [] c \in Range(LowerCase) -> 96 + IndexIn(LowerCase, c)
    [] c = "_" -> 95
    [] c = " " -> 32
    [] c = "\t" -> 9

\* a < b for two strings: the comparison of the default Array.prototype.sort,
\* by UTF-16 code units, a proper prefix first.
StrLess(a, b) ==
  \E k \in 1..Len(b) :
    /\ k - 1 <= Len(a)
    /\ SubSeq(a, 1, k - 1) = SubSeq(b, 1, k - 1)
    /\ \/ k = Len(a) + 1
       \/ CodeUnit(a[k]) < CodeUnit(b[k])

\* The pairs of positions of s.
PositionPairs(s) == (1..Len(s)) \X (1..Len(s))

\* A sort the language requires to be stable, for a comparison that orders
\* the items consistently; before holds the pairs << i, j >> of positions
\* whose items the comparison puts in that order.  Each item goes behind the
\* items that come before it and behind the earlier ones it ties with.
StableSort(s, before) ==
  LET ahead(i) == { j \in 1..Len(s) :
                      \/ << j, i >> \in before
                      \/ (j < i /\ << i, j >> \notin before) }
  IN  [ p \in 1..Len(s) |-> s[CHOOSE i \in 1..Len(s) : Cardinality(ahead(i)) = p - 1] ]

\* Every order of the items of s.
Reorderings(s) ==
  { [ k \in 1..Len(s) |-> s[f[k]] ] :
      f \in { g \in [ 1..Len(s) -> 1..Len(s) ] : \A a, b \in 1..Len(s) : g[a] = g[b] => a = b } }

\* The JavaScript values freqMap[line] evaluates to: a number, a string,
\* undefined, and what a fresh {} inherits from Object.prototype, a method
\* (str: its name) or, by the getter of __proto__, Object.prototype itself.
Num(k) == [ type |-> "number", num |-> k, str |-> << >> ]

Str(chars) == [ type |-> "string", num |-> 0, str |-> chars ]

Undefined == [ type |-> "undefined", num |-> 0, str |-> << >> ]

NativeFunction(name) == [ type |-> "function", num |-> 0, str |-> name ]

PrototypeObject == [ type |-> "object", num |-> 0, str |-> << >> ]

\* The methods of Object.prototype.
ObjectPrototypeMethods ==
  { << "c", "o", "n", "s", "t", "r", "u", "c", "t", "o", "r" >>,
    << "h", "a", "s", "O", "w", "n", "P", "r", "o", "p", "e", "r", "t", "y" >>,
    << "i", "s", "P", "r", "o", "t", "o", "t", "y", "p", "e", "O", "f" >>,
    << "p", "r", "o", "p", "e", "r", "t", "y", "I", "s", "E", "n", "u", "m", "e", "r", "a", "b", "l", "e" >>,
    << "t", "o", "L", "o", "c", "a", "l", "e", "S", "t", "r", "i", "n", "g" >>,
    << "t", "o", "S", "t", "r", "i", "n", "g" >>,
    << "v", "a", "l", "u", "e", "O", "f" >>,
    << "_", "_", "d", "e", "f", "i", "n", "e", "G", "e", "t", "t", "e", "r", "_", "_" >>,
    << "_", "_", "d", "e", "f", "i", "n", "e", "S", "e", "t", "t", "e", "r", "_", "_" >>,
    << "_", "_", "l", "o", "o", "k", "u", "p", "G", "e", "t", "t", "e", "r", "_", "_" >>,
    << "_", "_", "l", "o", "o", "k", "u", "p", "S", "e", "t", "t", "e", "r", "_", "_" >> }

\* The accessor property of Object.prototype.
ProtoKey == << "_", "_", "p", "r", "o", "t", "o", "_", "_" >>

\* ToBoolean(v)
Truthy(v) ==
  CASE v.type = "number" -> v.num # 0
    [] v.type = "string" -> v.str # << >>
    [] v.type = "undefined" -> FALSE
    [] OTHER -> TRUE

\* ToString(v) for what is not a number.  The source text of a native
\* function and the tag of an object are each written as one element.
ToStringOf(v) ==
  CASE v.type = "string" -> v.str
    [] v.type = "function" -> << "function " >> \o v.str \o << "() { [native code] }" >>
    [] v.type = "object" -> << "[object Object]" >>

\* (v || 0)
OrZero(v) == IF Truthy(v) THEN v ELSE Num(0)

\* v + 1: addition of numbers, concatenation for everything else here.
PlusOne(v) ==
  IF v.type = "number" THEN Num(v.num + 1) ELSE Str(ToStringOf(v) \o << "1" >>)

\* freqMap is the sequence of its own properties [key, value] in the order of
\* their creation.
HasOwn(fm, key) == \E k \in 1..Len(fm) : fm[k].key = key

\* freqMap[key], read: the own property, else the inherited one.
GetProperty(fm, key) ==
  IF HasOwn(fm, key) THEN fm[IndexIn([ k \in 1..Len(fm) |-> fm[k].key ], key)].value
  ELSE IF key \in ObjectPrototypeMethods THEN NativeFunction(key)
  ELSE IF key = ProtoKey THEN PrototypeObject
  ELSE Undefined

\* freqMap[key] = v for a number or string v: the setter of __proto__ ignores
\* it, every other key becomes or stays an own property.
SetProperty(fm, key, v) ==
  IF HasOwn(fm, key)
  THEN [ k \in 1..Len(fm) |-> IF fm[k].key = key THEN [ key |-> key, value |-> v ] ELSE fm[k] ]
  ELSE IF key = ProtoKey THEN fm
  ELSE Append(fm, [ key |-> key, value |-> v ])

RECURSIVE ForEachLine(_, _)
\* lines.forEach(line => { freqMap[line] = (freqMap[line] || 0) + 1; })
ForEachLine(fm, lines) ==
  IF Len(lines) = 0 THEN fm
  ELSE ForEachLine(SetProperty(fm, Head(lines), PlusOne(OrZero(GetProperty(fm, Head(lines))))),
                   Tail(lines))

\* A canonical array index: decimal digits without a leading zero, below
\* 2^32 - 1.  Keys of ten digits, some of which are array indices, do not
\* occur in the inputs.
IsArrayIndex(key) ==
  /\ Len(key) \in 1..9
  /\ \A k \in 1..Len(key) : key[k] \in Range(Digits)
  /\ (Len(key) > 1 => key[1] # "0")

\* Object.entries(freqMap): the array-index keys in ascending numeric order,
\* then the other keys in the order of their creation.
ObjectEntries(fm) ==
  LET indexed == SelectSeq(fm, LAMBDA e : IsArrayIndex(e.key))
  IN  StableSort(indexed,
                 { p \in PositionPairs(indexed) :
                     DecimalValue(indexed[p[1]].key) < DecimalValue(indexed[p[2]].key) })
        \o SelectSeq(fm, LAMBDA e : ~ IsArrayIndex(e.key))

\* .map(([title, count]) => ({ title, count }))
MapToItems(entries) ==
  [ k \in 1..Len(entries) |-> [ title |-> entries[k].key, count |-> entries[k].value ] ]

\* (a, b) => b.count - a.count is below 0: only for two numbers; with a
\* string count the difference is NaN, which sort takes for +0.
ComesBefore(a, b) ==
  /\ a.count.type = "number"
  /\ b.count.type = "number"
  /\ b.count.num - a.count.num < 0

\* The comparison gives +0 (or NaN) both ways.
ComparesEqual(a, b) == ~ ComesBefore(a, b) /\ ~ ComesBefore(b, a)

\* Whether the comparison is a consistent comparator for the items: that it
\* ties a with b and b with c, it ties a with c.
ConsistentComparator(items) ==
  \A a, b, c \in Range(items) :
    (ComparesEqual(a, b) /\ ComparesEqual(b, c)) => ComparesEqual(a, c)

\* .sort((a, b) => b.count - a.count): the results the language allows.  With
\* a consistent comparator the sort is stable; without, the order is
\* implementation-defined.
ArraySort(items) ==
  IF ConsistentComparator(items)
  THEN { StableSort(items, { p \in PositionPairs(items) : ComesBefore(items[p[1]], items[p[2]]) }) }
  ELSE Reorderings(items)

\* item.count > 1: false for a string that is not a numeral.
GreaterThanOne(v) == v.type = "number" /\ v.num > 1

\* NewSet that keeps every line.
MutNewSetKeepAll(lines) == lines

RECURSIVE NewSet(_)
\* new Set(lines), as the sequence of its elements in insertion order.
NewSet(lines) ==
  IF Len(lines) = 0 THEN << >>
  ELSE LET front == NewSet(SubSeq(lines, 1, Len(lines) - 1))
           last == lines[Len(lines)]
       IN  IF last \in Range(front) THEN front ELSE Append(front, last)

\* DefaultSort without the sort.
MutDefaultSortKeepOrder(strings) == strings

\* Array.from(uniqueSet).sort()
DefaultSort(strings) ==
  StableSort(strings, { p \in PositionPairs(strings) : StrLess(strings[p[1]], strings[p[2]]) })

TitlesOf(items) == [ k \in 1..Len(items) |-> items[k].title ]

\* Values of new Date().toLocaleTimeString().
ClockTimes == { "10:15:00 AM", "10:15:01 AM" }

\* EarlyReturn that never returns.
MutNeverReturn(text) == FALSE

\* if (!inputText.trim()) return;
EarlyReturn(text) == Trim(text) = << >>

\* onClick of the Analyze button: the early return, else the local
\* constants of the handler in turn and setResult.
handleAnalyze ==
  IF EarlyReturn(analyzerInputText)
  THEN UNCHANGED vars
  ELSE /\ \E lines \in { Normalize(analyzerInputText) } :
          \E uniqueSet \in { NewSet(lines) } :
          \E uniqueList \in { DefaultSort(uniqueSet) } :
          \E freqMap \in { ForEachLine(<< >>, lines) } :
          \E frequencyList \in ArraySort(MapToItems(ObjectEntries(freqMap))) :
          \E duplicateList \in
               { TitlesOf(SelectSeq(frequencyList, LAMBDA item : GreaterThanOne(item.count))) } :
          \E now \in ClockTimes :
            result' = << [ stats |-> [ total |-> Len(lines),
                                       unique |-> Len(uniqueSet),
                                       duplicates |-> Len(lines) - Len(uniqueSet),
                                       processedAt |-> now ],
                           uniqueList |-> uniqueList,
                           duplicateList |-> duplicateList,
                           frequencyMap |-> frequencyList ] >>
       /\ UNCHANGED << analyzerInputText, notAnalyzerVars >>

\* Raw lines of the texts handed to handleAnalyze: blank, padded, plain,
\* two that look like integers, and two names of Object.prototype.
AnalyzerRawLines ==
  { << >>, << " ", "a", "\r" >>, << "b" >>, << "2" >>, << "1", "0" >>,
    << "v", "a", "l", "u", "e", "O", "f" >>, ProtoKey }

AnalyzerTexts ==
  { Join(ls, << LF >>) : ls \in UNION { [ 1..k -> AnalyzerRawLines ] : k \in 0..MaxAnalyzerLines } }

\* The Analyzer with some text in its textarea and no result yet.
AnalyzeInit ==
  /\ analyzerInputText \in AnalyzerTexts
  /\ result = << >>
  /\ BatcherInit
  /\ memo = MemoIdle
  /\ clipboardWrite = NothingCopied
  /\ alphaCall = NoAlphaCall
  /\ ComparatorInit
  /\ ServicesIdle
  /\ AppIdle

\* One click on the text is followed: a second one computes the same again.
AnalyzeOnce ==
  /\ result = << >>
  /\ handleAnalyze

AnalyzeNext == AnalyzeOnce

SpecAnalyze == AnalyzeInit /\ [][AnalyzeNext]_vars

(***************************************************************************)
(* The Analyzer as the user drives it: typing, loading a file, analyzing.  *)
(***************************************************************************)
\* Most raw lines typed into the Analyzer's textarea.
MaxTypedLines == 4

\* Raw lines the user types into the Analyzer's textarea.
AnalyzerTypedLines == { << >>, << " ", "a", "\r" >>, << "b" >> }

\* Contents of the files the user loads: white space only, and two lines.
AnalyzerFileTexts ==
  { << " ", LF, "\t", "\r" >>,
    << "v", "a", "l", "u", "e", "O", "f" >> \o << LF, "b" >> }

\* onChange of the textarea, the user having typed or pasted one more raw line
\* at the end of the text (the first one into the empty field).
TypeAnalyzerInput ==
  /\ \E l \in AnalyzerTypedLines :
       \/ /\ analyzerInputText = << >>
          /\ analyzerInputText' = l
       \/ /\ Len(Split(analyzerInputText)) < MaxTypedLines
          /\ analyzerInputText' = analyzerInputText \o << LF >> \o l
  /\ UNCHANGED << result, notAnalyzerVars >>

\* onChange of the textarea, the user having deleted the whole text.
ClearAnalyzerInput ==
  /\ analyzerInputText' = << >>
  /\ UNCHANGED << result, notAnalyzerVars >>

\* handleFileUpload with a file chosen, and the onload of its reader.
handleFileUpload ==
  /\ \E text \in AnalyzerFileTexts : analyzerInputText' = text
  /\ UNCHANGED << result, notAnalyzerVars >>

\* The Analyzer as mounted.
AnalyzerMounted ==
  /\ AnalyzerInit
  /\ ComparatorInit
  /\ ServicesIdle
  /\ AppIdle
  /\ BatcherInit
  /\ memo = MemoIdle
  /\ clipboardWrite = NothingCopied
  /\ alphaCall = NoAlphaCall

AnalyzerNext ==
  \/ TypeAnalyzerInput
  \/ ClearAnalyzerInput
  \/ handleFileUpload
  \/ handleAnalyze

SpecAnalyzer == AnalyzerMounted /\ [][AnalyzerNext]_vars

(***************************************************************************)
(* Comparator (components/Analyzer.tsx, third component of the file):      *)
(* handleCompare on its own, on generated pairs of texts.  The Compare     *)
(* button is disabled while either text is blank; the handler itself does  *)
(* not look, and is run on blank texts too.                                *)
(***************************************************************************)
\* Most raw lines of each of the two texts handed to handleCompare.
MaxCompareLines == 3

\* Raw lines of the two texts: blank, padded, plain, and an upper-case one.
ComparatorRawLines == { << >>, << " ", "a", "\r" >>, << "b" >>, << "C" >> }

ComparatorTexts ==
  { Join(ls, << LF >>) : ls \in UNION { [ 1..k -> ComparatorRawLines ] : k \in 0..MaxCompareLines } }

\* Has that finds nothing.
MutHasNever(set, item) == FALSE

\* set.has(item)
Has(set, item) == item \in Range(set)

\* The ComparisonResult handleCompare stores for the two texts.
ComparisonResultOf(textA, textB) ==
  LET setA == NewSet(Normalize(textA))
      setB == NewSet(Normalize(textB))
      intersection == SelectSeq(setA, LAMBDA item : Has(setB, item))
      aOnly == SelectSeq(setA, LAMBDA item : ~ Has(setB, item))
      bOnly == SelectSeq(setB, LAMBDA item : ~ Has(setA, item))
  IN  [ intersection |-> DefaultSort(intersection),
        aOnly |-> DefaultSort(aOnly),
        bOnly |-> DefaultSort(bOnly),
        stats |-> [ inBoth |-> Len(intersection),
                    inAOnly |-> Len(aOnly),
                    inBOnly |-> Len(bOnly),
                    totalA |-> Len(setA),
                    totalB |-> Len(setB) ] ]

\* onClick of the Compare button.
handleCompare ==
  /\ comparisonResult' = << ComparisonResultOf(listA, listB) >>
  /\ UNCHANGED << listA, listB, notComparatorVars >>

\* OrOne without the guard.
MutOrOneNoGuard(n) == n

\* (n || 1) for a number n.
OrOne(n) == IF n = 0 THEN 1 ELSE n

\* UnionSize that counts the common lines twice.
MutUnionSizeDoubleCount(stats) == stats.totalA + stats.totalB

\* result.stats.totalA + result.stats.totalB - result.stats.inBoth
UnionSize(stats) == stats.totalA + stats.totalB - stats.inBoth

\* a / b for integers a >= 0 and b >= 0: a fraction, or NaN or Infinity.
Divide(a, b) ==
  IF b # 0 THEN [ kind |-> "finite", num |-> a, den |-> b ]
  ELSE IF a = 0 THEN [ kind |-> "NaN", num |-> 0, den |-> 0 ]
  ELSE [ kind |-> "Infinity", num |-> 0, den |-> 0 ]

\* (q * 100).toFixed(1) for q >= 0: the nearest number of tenths, the larger
\* one of two equally near, then its digits.
TimesHundredToFixed1(q) ==
  IF q.kind = "NaN" THEN << "N", "a", "N" >>
  ELSE IF q.kind = "Infinity" THEN << "I", "n", "f", "i", "n", "i", "t", "y" >>
  ELSE LET tenths == (2 * 1000 * q.num + q.den) \div (2 * q.den)
       IN  ToDecimal(tenths \div 10) \o << "." >> \o ToDecimal(tenths % 10)

\* The text under Similarity Index for a result.
SimilarityText(r) ==
  TimesHundredToFixed1(Divide(r.stats.inBoth, OrOne(UnionSize(r.stats)))) \o << "%" >>

\* The Comparator with some text in each textarea and no result yet.
CompareInit ==
  /\ listA \in ComparatorTexts
  /\ listB \in ComparatorTexts
  /\ comparisonResult = << >>
  /\ BatcherInit
  /\ memo = MemoIdle
  /\ clipboardWrite = NothingCopied
  /\ alphaCall = NoAlphaCall
  /\ AnalyzerInit
  /\ ServicesIdle
  /\ AppIdle

\* One click on the two texts is followed: a second one computes the same again.
CompareOnce ==
  /\ comparisonResult = << >>
  /\ handleCompare

CompareNext == CompareOnce

SpecCompare == CompareInit /\ [][CompareNext]_vars

(***************************************************************************)
(* The line normalization on its own, in the two forms the tools write it. *)
(***************************************************************************)
\* Most raw lines of a text handed to the normalization.
MaxNormalizeLines == 3

\* Raw lines of those texts: empty, blank, padded on both sides, padded twice
\* on the left, with white space inside, and plain.
NormalizeRawLines ==
  { << >>, << " " >>, << " ", "a", "\r" >>, << "\t", " ", "b" >>, << "a", " ", "b" >>, << "a" >> }

NormalizeTexts ==
  { Join(ls, << LF >>) : ls \in UNION { [ 1..k -> NormalizeRawLines ] : k \in 0..MaxNormalizeLines } }

\* TopicSorter: inputText.split(/\n/).map(l => l.trim()).filter(l => l)
NormalizeTitles(text) == SelectSeq(MapTrim(Split(text)), LAMBDA l : Truthy(Str(l)))

\* The normalization as the tool writes it: Analyzer, Batcher and Comparator
\* share one expression, TopicSorter has its own.
NormalizeBy(tool, text) ==
  IF tool = "topicSorter" THEN NormalizeTitles(text) ELSE Normalize(text)

\* uniqueList.join('\n'): lines written out as a text, one per line.
LinesToText(lines) == Join(lines, << LF >>)

\* const lines = inputText.split(/\n/)...
NormalizeApply ==
  /\ normalizeCall.pc = "call"
  /\ normalizeCall' = [ normalizeCall EXCEPT
                          !.pc = "returned",
                          !.lines = NormalizeBy(normalizeCall.tool, normalizeCall.text) ]
  /\ UNCHANGED notNormalizeVars

\* The lines written out as text and normalized again.
NormalizeAgain ==
  /\ normalizeCall.pc = "returned"
  /\ normalizeCall' = [ normalizeCall EXCEPT
                          !.pc = "again",
                          !.again = NormalizeBy(normalizeCall.tool,
                                                LinesToText(normalizeCall.lines)) ]
  /\ UNCHANGED notNormalizeVars

NormalizeInit ==
  /\ normalizeCall \in { [ pc |-> "call", tool |-> t, text |-> x, lines |-> << >>, again |-> << >> ] :
                           t \in { "analyzer", "topicSorter" }, x \in NormalizeTexts }
  /\ categorize = NotCategorizing
  /\ BatcherInit
  /\ memo = MemoIdle
  /\ clipboardWrite = NothingCopied
  /\ alphaCall = NoAlphaCall
  /\ AnalyzerInit
  /\ ComparatorInit
  /\ AppIdle

NormalizeNext ==
  \/ NormalizeApply
  \/ NormalizeAgain

SpecNormalize == NormalizeInit /\ [][NormalizeNext]_vars

(***************************************************************************)
(* JSON.parse, for texts of objects, arrays, strings without escapes,      *)
(* numbers of digits, and the three literals.                              *)
(***************************************************************************)
\* JSON values.
JsonNull == [ t |-> "null" ]
JsonBool(b) == [ t |-> "boolean", b |-> b ]
JsonNumber(n) == [ t |-> "number", n |-> n ]
JsonString(chars) == [ t |-> "string", chars |-> chars ]
JsonArray(items) == [ t |-> "array", items |-> items ]
JsonObject(members) == [ t |-> "object", members |-> members ]

JsonWhiteSpace == { " ", "\t", "\r", "\n" }

\* What a parsing step returns: whether it succeeded, the value, and the
\* position after it.
Parsed(value, next) == [ ok |-> TRUE, value |-> value, next |-> next ]
SyntaxError == [ ok |-> FALSE, value |-> JsonNull, next |-> 0 ]

\* The first position at or after i that holds no white space.
SkipWhiteSpace(text, i) ==
  CHOOSE k \in i..(Len(text) + 1) :
    /\ \A o \in i..(k - 1) : text[o] \in JsonWhiteSpace
    /\ (k <= Len(text) => text[k] \notin JsonWhiteSpace)

CharAt(text, i) == IF i \in 1..Len(text) THEN text[i] ELSE "end"

\* The word at position i.
Literal(text, i, word, value) ==
  IF i + Len(word) - 1 <= Len(text) /\ SubSeq(text, i, i + Len(word) - 1) = word
  THEN Parsed(value, i + Len(word))
  ELSE SyntaxError

\* A string without escapes from the quote at position i.
ParseString(text, i) ==
  IF CharAt(text, i) # "\"" \/ \A k \in (i + 1)..Len(text) : text[k] # "\"" THEN SyntaxError
  ELSE LET close == CHOOSE k \in (i + 1)..Len(text) :
                      text[k] = "\"" /\ \A o \in (i + 1)..(k - 1) : text[o] # "\""
       IN  IF \E o \in (i + 1)..(close - 1) : text[o] \in { "\\", "\n", "\r", "\t" }
           THEN SyntaxError
           ELSE Parsed(JsonString(SubSeq(text, i + 1, close - 1)), close + 1)

\* A number of digits only from position i.
ParseNumber(text, i) ==
  LET end == CHOOSE k \in i..Len(text) :
               /\ \A o \in i..k : text[o] \in Range(Digits)
               /\ (k < Len(text) => text[k + 1] \notin Range(Digits))
  IN  IF end > i /\ text[i] = "0" THEN SyntaxError
      ELSE Parsed(JsonNumber(DecimalValue(SubSeq(text, i, end))), end + 1)

\* The members with key replaced or added.
WithMember(members, key, value) ==
  IF \E k \in 1..Len(members) : members[k].key = key
  THEN [ k \in 1..Len(members) |->
           IF members[k].key = key THEN [ key |-> key, value |-> value ] ELSE members[k] ]
  ELSE Append(members, [ key |-> key, value |-> value ])

RECURSIVE ParseValue(_, _)
RECURSIVE ParseItems(_, _, _)
RECURSIVE ParseMembers(_, _, _)

\* The items of an array after its [ or after a comma, items being those read.
ParseItems(text, i, items) ==
  LET item == ParseValue(text, SkipWhiteSpace(text, i))
      after == SkipWhiteSpace(text, item.next)
  IN  IF ~ item.ok THEN SyntaxError
      ELSE IF CharAt(text, after) = "," THEN ParseItems(text, after + 1, Append(items, item.value))
      ELSE IF CharAt(text, after) = "]" THEN Parsed(JsonArray(Append(items, item.value)), after + 1)
      ELSE SyntaxError

\* The members of an object after its { or after a comma.
ParseMembers(text, i, members) ==
  LET key == ParseString(text, SkipWhiteSpace(text, i))
      colon == SkipWhiteSpace(text, key.next)
      value == ParseValue(text, SkipWhiteSpace(text, colon + 1))
      after == SkipWhiteSpace(text, value.next)
  IN  IF ~ key.ok THEN SyntaxError
      ELSE IF CharAt(text, colon) # ":" THEN SyntaxError
      ELSE IF ~ value.ok THEN SyntaxError
      ELSE IF CharAt(text, after) = ","
        THEN ParseMembers(text, after + 1, WithMember(members, key.value.chars, value.value))
      ELSE IF CharAt(text, after) = "}"
        THEN Parsed(JsonObject(WithMember(members, key.value.chars, value.value)), after + 1)
      ELSE SyntaxError

\* The value at position i.
ParseValue(text, i) ==
  LET c == CharAt(text, i)
  IN  IF c = "{"
        THEN IF CharAt(text, SkipWhiteSpace(text, i + 1)) = "}"
             THEN Parsed(JsonObject(<< >>), SkipWhiteSpace(text, i + 1) + 1)
             ELSE ParseMembers(text, i + 1, << >>)
      ELSE IF c = "["
        THEN IF CharAt(text, SkipWhiteSpace(text, i + 1)) = "]"
             THEN Parsed(JsonArray(<< >>), SkipWhiteSpace(text, i + 1) + 1)
             ELSE ParseItems(text, i + 1, << >>)
      ELSE IF c = "\"" THEN ParseString(text, i)
      ELSE IF c \in Range(Digits) THEN ParseNumber(text, i)
      ELSE IF c = "n" THEN Literal(text, i, << "n", "u", "l", "l" >>, JsonNull)
      ELSE IF c = "t" THEN Literal(text, i, << "t", "r", "u", "e" >>, JsonBool(TRUE))
      ELSE IF c = "f" THEN Literal(text, i, << "f", "a", "l", "s", "e" >>, JsonBool(FALSE))
      ELSE SyntaxError

\* JSON.parse(text): the value, or a SyntaxError.
JsonParse(text) ==
  LET r == ParseValue(text, SkipWhiteSpace(text, 1))
  IN  IF r.ok /\ SkipWhiteSpace(text, r.next) = Len(text) + 1 THEN r ELSE SyntaxError

(***************************************************************************)
(* categorizeTitles (services/geminiService.ts): one invocation, from the  *)
(* call to the settling of its promise.                                    *)
(***************************************************************************)
\* Most titles handed to categorizeTitles.
MaxTitleCount == 502

\* titles.slice(0, 500)
MaxTitlesPerRequest == 500

\* The numbers of titles handed to categorizeTitles.
TitleCounts == (0..2) \cup ((MaxTitlesPerRequest - 1)..MaxTitleCount)

\* n titles, all different: "1", "2", ...
TitlesOfCount(n) == [ k \in 1..n |-> ToDecimal(k) ]

\* The credentials: none, a key, and a blank one.
ApiKeys == { << >>, << "k" >>, << " " >> }

CategoriesKey == << "c", "a", "t", "e", "g", "o", "r", "i", "e", "s" >>

\* What generateContent settles with: a failure of the request, or a
\* response whose text is undefined (<< >>) or a string (<< chars >>).  The
\* texts: empty; an empty category list; one category; a category without
\* items; an array; null; a truncated object; no JSON.
BackendTexts ==
  { << >>,
    << "{", "\"", "c", "a", "t", "e", "g", "o", "r", "i", "e", "s", "\"", ":", "[", "]", "}" >>,
    << "{", "\"", "c", "a", "t", "e", "g", "o", "r", "i", "e", "s", "\"", ":", " ", "[", "{", "\"", "n", "a", "m", "e", "\"", ":", "\"", "T", "\"", ",", "\"", "i", "t", "e", "m", "s", "\"", ":", "[", "\"", "1", "\"", ",", "\"", "2", "\"", "]", "}", "]", "}" >>,
    << "{", "\"", "c", "a", "t", "e", "g", "o", "r", "i", "e", "s", "\"", ":", "[", "{", "\"", "n", "a", "m", "e", "\"", ":", "\"", "T", "\"", "}", "]", "}" >>,
    << "[", "]" >>,
    << "n", "u", "l", "l" >>,
    << "{", "\"", "c", "a", "t", "e", "g", "o", "r", "i", "e", "s", "\"", ":" >>,
    << "S", "o", "r", "r", "y" >> }

BackendOutcomes ==
  { [ failed |-> TRUE, text |-> << >> ], [ failed |-> FALSE, text |-> << >> ] }
  \cup { [ failed |-> FALSE, text |-> << x >> ] : x \in BackendTexts }

Rejected(message) == [ settled |-> "rejected", value |-> << >>, error |-> message ]

Fulfilled(value) == [ settled |-> "fulfilled", value |-> << value >>, error |-> "" ]

\* The promise for no titles: { categories: [] }.
NoCategories == Fulfilled(JsonObject(<< [ key |-> CategoriesKey, value |-> JsonArray(<< >>) ] >>))

\* RequestFor without the slice: every title goes into the prompt.
MutRequestForAllTitles(titles) ==
  [ model |-> "gemini-2.5-flash", titles |-> titles ]

\* The request for the titles: the model, and the titles the prompt lists
\* (JSON.stringify(processedTitles) inside the instruction text).
RequestFor(titles) ==
  [ model |-> "gemini-2.5-flash", titles |-> Slice(titles, 0, MaxTitlesPerRequest) ]

\* BeforeAwait with the check of the titles before the one of the credential.
MutBeforeAwaitTitlesFirst(st) ==
  IF Len(st.titles) = 0
  THEN [ st EXCEPT !.pc = "done", !.outcome = NoCategories ]
  ELSE IF ~ Truthy(Str(st.apiKey))
  THEN [ st EXCEPT !.pc = "done",
                   !.outcome = Rejected("API Key is missing. Please configure it in the settings.") ]
  ELSE [ st EXCEPT !.pc = "awaiting", !.requests = Append(st.requests, RequestFor(st.titles)) ]

\* BeforeAwait without the early return for no titles.
MutBeforeAwaitNoEarlyReturn(st) ==
  IF ~ Truthy(Str(st.apiKey))
  THEN [ st EXCEPT !.pc = "done",
                   !.outcome = Rejected("API Key is missing. Please configure it in the settings.") ]
  ELSE [ st EXCEPT !.pc = "awaiting", !.requests = Append(st.requests, RequestFor(st.titles)) ]

\* The statements of categorizeTitles up to its await: the credential check,
\* the early return for no titles, else the request with the first titles.
BeforeAwait(st) ==
  IF ~ Truthy(Str(st.apiKey))
  THEN [ st EXCEPT !.pc = "done",
                   !.outcome = Rejected("API Key is missing. Please configure it in the settings.") ]
  ELSE IF Len(st.titles) = 0
  THEN [ st EXCEPT !.pc = "done", !.outcome = NoCategories ]
  ELSE [ st EXCEPT !.pc = "awaiting", !.requests = Append(st.requests, RequestFor(st.titles)) ]

\* The call of categorizeTitles, up to its await.
categorizeTitles ==
  /\ categorize.pc = "call"
  /\ categorize' = BeforeAwait(categorize)
  /\ UNCHANGED notCategorizeVars

\* AfterAwait with one retry: a failed first request is issued once more.
MutAfterAwaitRetryOnce(st, outcome) ==
  IF outcome.failed /\ Len(st.requests) = 1
  THEN [ st EXCEPT !.requests = Append(st.requests, st.requests[1]) ]
  ELSE IF outcome.failed
  THEN [ st EXCEPT !.pc = "done", !.response = << outcome >>, !.logged = st.logged + 1,
                   !.outcome = Rejected("request failed") ]
  ELSE IF outcome.text = << >> \/ ~ Truthy(Str(outcome.text[1]))
  THEN [ st EXCEPT !.pc = "done", !.response = << outcome >>, !.logged = st.logged + 1,
                   !.outcome = Rejected("No response from AI") ]
  ELSE IF ~ JsonParse(outcome.text[1]).ok
  THEN [ st EXCEPT !.pc = "done", !.response = << outcome >>, !.logged = st.logged + 1,
                   !.outcome = Rejected("SyntaxError") ]
  ELSE [ st EXCEPT !.pc = "done", !.response = << outcome >>,
                   !.outcome = Fulfilled(JsonParse(outcome.text[1]).value) ]

\* The statements after the await, for one outcome of the request: the catch
\* block logs and rethrows what the request, the check of the text or
\* JSON.parse throws; else the parsed value is returned as it is.
AfterAwait(st, outcome) ==
  IF outcome.failed
  THEN [ st EXCEPT !.pc = "done", !.response = << outcome >>, !.logged = st.logged + 1,
                   !.outcome = Rejected("request failed") ]
  ELSE IF outcome.text = << >> \/ ~ Truthy(Str(outcome.text[1]))
  THEN [ st EXCEPT !.pc = "done", !.response = << outcome >>, !.logged = st.logged + 1,
                   !.outcome = Rejected("No response from AI") ]
  ELSE IF ~ JsonParse(outcome.text[1]).ok
  THEN [ st EXCEPT !.pc = "done", !.response = << outcome >>, !.logged = st.logged + 1,
                   !.outcome = Rejected("SyntaxError") ]
  ELSE [ st EXCEPT !.pc = "done", !.response = << outcome >>,
                   !.outcome = Fulfilled(JsonParse(outcome.text[1]).value) ]

\* The responseSchema of the request, as a test of a parsed value: an object
\* with the member categories, an array of objects that each have a string
\* name and an array of strings items.
IsStringArray(v) ==
  /\ v.t = "array"
  /\ \A i \in 1..Len(v.items) : v.items[i].t = "string"

HasMember(v, key) == \E i \in 1..Len(v.members) : v.members[i].key = key

\* The value of the member (JSON.parse keeps the last of equal keys).
MemberOf(v, key) ==
  v.members[CHOOSE i \in 1..Len(v.members) :
              /\ v.members[i].key = key
              /\ \A j \in (i + 1)..Len(v.members) : v.members[j].key # key].value

NameKey == << "n", "a", "m", "e" >>

ItemsKey == << "i", "t", "e", "m", "s" >>

IsCategory(v) ==
  /\ v.t = "object"
  /\ HasMember(v, NameKey)
  /\ HasMember(v, ItemsKey)
  /\ MemberOf(v, NameKey).t = "string"
  /\ IsStringArray(MemberOf(v, ItemsKey))

MatchesSchema(v) ==
  /\ v.t = "object"
  /\ HasMember(v, CategoriesKey)
  /\ MemberOf(v, CategoriesKey).t = "array"
  /\ \A i \in 1..Len(MemberOf(v, CategoriesKey).items) :
       IsCategory(MemberOf(v, CategoriesKey).items[i])

\* The request of generateContent settles and categorizeTitles runs on.
GenerateContentSettles ==
  /\ categorize.pc = "awaiting"
  /\ \E outcome \in BackendOutcomes : categorize' = AfterAwait(categorize, outcome)
  /\ UNCHANGED notCategorizeVars

CategorizeInit ==
  /\ categorize \in { [ NotCategorizing EXCEPT !.pc = "call", !.titles = TitlesOfCount(n), !.apiKey = key ] :
                        n \in TitleCounts, key \in ApiKeys }
  /\ normalizeCall = NoNormalizeCall
  /\ BatcherInit
  /\ memo = MemoIdle
  /\ clipboardWrite = NothingCopied
  /\ alphaCall = NoAlphaCall
  /\ AnalyzerInit
  /\ ComparatorInit
  /\ AppIdle

CategorizeNext ==
  \/ categorizeTitles
  \/ GenerateContentSettles

SpecCategorize == CategorizeInit /\ [][CategorizeNext]_vars

(***************************************************************************)
(* App (App.tsx; src/unnamed/part_000 is the same component with the       *)
(* password gate before the TOPICS view) and TopicSorter                   *)
(* (components/TopicSorter.tsx), which App renders in the TOPICS view.     *)
(***************************************************************************)
\* Most invocations of categorizeTitles awaited at a time.
MaxOutstanding == 2

ADMIN_PASSWORD == << "h", "c", "1" >>

ViewModes == { "ANALYZER", "COMPARATOR", "BATCHER", "TOPICS" }

Builds == { "App.tsx", "part_000" }

\* What the key of localStorage holds at startup: nothing, the empty
\* string, a key, a blank string.
StoredKeys == { << >>, << << >> >>, << << "k" >> >>, << << " " >> >> }

\* What is typed into the field of the key: nothing, a blank, a key, and a
\* key between blanks.
KeyInputs == { << >>, << " " >>, << "k" >>, << " ", "q", " " >> }

\* What is typed into the field of the password.
PasswordInputs == { << >>, ADMIN_PASSWORD, << "h", "c" >>, << "h", "c", "1", " " >> }

\* What is typed into the textarea of TopicSorter: nothing, a blank, one
\* title, one title and a blank line, two titles, three titles.
TopicTexts ==
  { << >>, << " " >>, << "a" >>, << "a", LF, " " >>, << "a", LF, " ", "b" >>,
    << "b", LF, "a", LF, "a" >> }

\* LoadedKey without the load: the credential stays as it was.
MutLoadedKeyNever(storedKey, apiKey) == apiKey

\* if (storedKey) setApiKey(storedKey): the credential after the load.
LoadedKey(storedKey, apiKey) ==
  IF storedKey # << >> /\ Truthy(Str(storedKey[1])) THEN storedKey[1] ELSE apiKey

\* result.categories: the member of an object, undefined (<< >>) for an
\* object without it and for an array, a string, a number and a boolean.
PropertyOf(v, key) ==
  IF v.t = "object" /\ HasMember(v, key) THEN << MemberOf(v, key) >> ELSE << >>

\* What React renders as a child ({item}, {cat.name}): a string, a number,
\* nothing for a boolean and null, the elements of an array; an object throws.
RECURSIVE ValidChild(_)
ValidChild(v) ==
  \/ v.t \in { "string", "number", "boolean", "null" }
  \/ /\ v.t = "array"
     /\ \A i \in 1..Len(v.items) : ValidChild(v.items[i])

\* One card: cat.name, cat.items.length and cat.items.map throw nothing.
RendersCategory(cat) ==
  /\ cat.t = "object"
  /\ \A name \in { PropertyOf(cat, NameKey) } : name = << >> \/ ValidChild(name[1])
  /\ \A items \in { PropertyOf(cat, ItemsKey) } :
       /\ items # << >>
       /\ items[1].t = "array"
       /\ ValidChild(items[1])

\* categories.length and categories.map of the render throw nothing.
Renders(categories) ==
  /\ categories # << >>
  /\ categories[1].t = "array"
  /\ \A i \in 1..Len(categories[1].items) : RendersCategory(categories[1].items[i])

\* The render of App: with a credential the TOPICS view renders the tool
\* and its categories; a render that throws unmounts the whole tree.
Rendered(a, ts) ==
  IF a.currentView = "TOPICS" /\ Truthy(Str(a.apiKey)) /\ ~ Renders(ts.categories)
  THEN [ a EXCEPT !.phase = "crashed" ]
  ELSE a

\* renderView: leaving the TOPICS view unmounts TopicSorter, whose state is
\* dropped; entering it mounts a new one.
TopicSorterAfter(view) ==
  IF app.currentView = "TOPICS" /\ view # "TOPICS" THEN TopicSorterStart ELSE topicSorter

\* The invocations an unmounted TopicSorter awaited go on without it.
CallsAfter(view) ==
  IF app.currentView = "TOPICS" /\ view # "TOPICS"
  THEN [ i \in 1..Len(calls) |-> [ calls[i] EXCEPT !.mounted = FALSE ] ]
  ELSE calls

\* useEffect(..., []) of the mount: the stored credential is loaded.
useEffect ==
  /\ app.phase = "rendered"
  /\ app' = Rendered([ app EXCEPT !.phase = "loaded",
                                  !.apiKey = LoadedKey(localStorage, app.apiKey) ], topicSorter)
  /\ UNCHANGED << localStorage, topicSorter, calls, notAppVars >>

\* The menu button of the mobile header.
ToggleMobileMenu ==
  /\ app.phase = "loaded"
  /\ app' = [ app EXCEPT !.mobileMenuOpen = ~ app.mobileMenuOpen ]
  /\ UNCHANGED << localStorage, topicSorter, calls, notAppVars >>

\* The overlay behind the open mobile menu.
CloseMobileMenu ==
  /\ app.phase = "loaded"
  /\ app.mobileMenuOpen
  /\ app' = [ app EXCEPT !.mobileMenuOpen = FALSE ]
  /\ UNCHANGED << localStorage, topicSorter, calls, notAppVars >>

\* handleNavClick without the gate.
MutHandleNavClickOpen(a, viewMode) ==
  [ a EXCEPT !.currentView = viewMode, !.mobileMenuOpen = FALSE ]

\* handleNavClick of part_000: the TOPICS view asks for the password until
\* it is unlocked.
handleNavClick(a, viewMode) ==
  IF viewMode = "TOPICS" /\ ~ a.isAIUnlocked
  THEN [ a EXCEPT !.isPasswordModalOpen = TRUE, !.mobileMenuOpen = FALSE ]
  ELSE [ a EXCEPT !.currentView = viewMode, !.mobileMenuOpen = FALSE ]

\* onClick of a NavItem: handleNavClick in part_000, the view itself in
\* App.tsx.
NavItemClick(a, viewMode) ==
  IF a.build = "part_000"
  THEN handleNavClick(a, viewMode)
  ELSE [ a EXCEPT !.currentView = viewMode, !.mobileMenuOpen = FALSE ]

ClickNavItem ==
  /\ app.phase = "loaded"
  /\ \E viewMode \in ViewModes :
       \E a \in { NavItemClick(app, viewMode) } :
         \E ts \in { TopicSorterAfter(a.currentView) } :
           /\ app' = Rendered(a, ts)
           /\ topicSorter' = ts
           /\ calls' = CallsAfter(a.currentView)
  /\ UNCHANGED << localStorage, notAppVars >>

\* openSettings as a function of the state of App.
OpenSettingsOf(a) ==
  [ a EXCEPT !.tempKey = a.apiKey, !.isKeyModalOpen = TRUE, !.mobileMenuOpen = FALSE ]

\* The Settings button, the credential badge, and "Configure API Key" of
\* TopicSorter without a credential.
openSettings ==
  /\ app.phase = "loaded"
  /\ app' = OpenSettingsOf(app)
  /\ UNCHANGED << localStorage, topicSorter, calls, notAppVars >>

\* onChange of the field of the key.
ChangeTempKey ==
  /\ app.phase = "loaded"
  /\ app.isKeyModalOpen
  /\ \E text \in KeyInputs : app' = [ app EXCEPT !.tempKey = text ]
  /\ UNCHANGED << localStorage, topicSorter, calls, notAppVars >>

\* The eye button of the field of the key.
ToggleShowKey ==
  /\ app.phase = "loaded"
  /\ app.isKeyModalOpen
  /\ app' = [ app EXCEPT !.showKey = ~ app.showKey ]
  /\ UNCHANGED << localStorage, topicSorter, calls, notAppVars >>

\* handleSaveKey: a non-blank input is stored and taken, trimmed.
handleSaveKey ==
  /\ app.phase = "loaded"
  /\ app.isKeyModalOpen
  /\ IF Trim(app.tempKey) # << >>
     THEN /\ localStorage' = << Trim(app.tempKey) >>
          /\ app' = Rendered([ app EXCEPT !.apiKey = Trim(app.tempKey),
                                          !.isKeyModalOpen = FALSE,
                                          !.tempKey = << >> ], topicSorter)
     ELSE UNCHANGED << app, localStorage >>
  /\ UNCHANGED << topicSorter, calls, notAppVars >>

\* handleClearKey, the Remove button, which is rendered with a credential.
handleClearKey ==
  /\ app.phase = "loaded"
  /\ app.isKeyModalOpen
  /\ Truthy(Str(app.apiKey))
  /\ localStorage' = << >>
  /\ app' = [ app EXCEPT !.apiKey = << >>, !.isKeyModalOpen = FALSE ]
  /\ UNCHANGED << topicSorter, calls, notAppVars >>

\* The backdrop and the X of the modal of the key.
CloseKeyModal ==
  /\ app.phase = "loaded"
  /\ app.isKeyModalOpen
  /\ app' = [ app EXCEPT !.isKeyModalOpen = FALSE ]
  /\ UNCHANGED << localStorage, topicSorter, calls, notAppVars >>

\* onChange of the field of the password.
ChangePasswordInput ==
  /\ app.phase = "loaded"
  /\ app.isPasswordModalOpen
  /\ \E text \in PasswordInputs :
       app' = [ app EXCEPT !.passwordInput = text, !.passwordError = FALSE ]
  /\ UNCHANGED << localStorage, topicSorter, calls, notAppVars >>

\* handlePasswordSubmit as a function of the state of App.
PasswordSubmitOf(a) ==
  IF a.passwordInput = ADMIN_PASSWORD
  THEN [ a EXCEPT !.isAIUnlocked = TRUE, !.isPasswordModalOpen = FALSE,
                  !.currentView = "TOPICS", !.passwordInput = << >>, !.passwordError = FALSE ]
  ELSE [ a EXCEPT !.passwordError = TRUE ]

handlePasswordSubmit ==
  /\ app.phase = "loaded"
  /\ app.isPasswordModalOpen
  /\ \E a \in { PasswordSubmitOf(app) } :
       \E ts \in { TopicSorterAfter(a.currentView) } :
         /\ app' = Rendered(a, ts)
         /\ topicSorter' = ts
         /\ calls' = CallsAfter(a.currentView)
  /\ UNCHANGED << localStorage, notAppVars >>

\* The backdrop and the Cancel button of the modal of the password.
ClosePasswordModal ==
  /\ app.phase = "loaded"
  /\ app.isPasswordModalOpen
  /\ app' = [ app EXCEPT !.isPasswordModalOpen = FALSE ]
  /\ UNCHANGED << localStorage, topicSorter, calls, notAppVars >>

\* The tool of TopicSorter (textarea, Run button, results) is rendered in
\* the TOPICS view with a credential.
ToolRendered ==
  /\ app.phase = "loaded"
  /\ app.currentView = "TOPICS"
  /\ Truthy(Str(app.apiKey))

\* onChange of the textarea, which is disabled while loading.
setInputText ==
  /\ ToolRendered
  /\ ~ topicSorter.loading
  /\ \E text \in TopicTexts : topicSorter' = [ topicSorter EXCEPT !.inputText = text ]
  /\ UNCHANGED << app, localStorage, calls, notAppVars >>

\* TooFewTitles without the validation.
MutTooFewTitlesNever(titles) == FALSE

\* if (titles.length < 2) throw ...
TooFewTitles(titles) == Len(titles) < 2

\* err.message || "Failed to categorize titles."
MessageOr(message) == IF message = "" THEN "Failed to categorize titles." ELSE message

\* handleSort from the settling of categorizeTitles on: setCategories of
\* result.categories (a TypeError, caught, where result is null), setError
\* in the catch block, and setLoading(false) in the finally block.
AfterCategorize(ts, st) ==
  IF st.outcome.settled = "rejected"
  THEN [ ts EXCEPT !.error = << MessageOr(st.outcome.error) >>, !.loading = FALSE ]
  ELSE IF st.outcome.value[1].t = "null"
  THEN [ ts EXCEPT !.error = << "Cannot read properties of null (reading 'categories')" >>,
                   !.loading = FALSE ]
  ELSE [ ts EXCEPT !.categories = PropertyOf(st.outcome.value[1], CategoriesKey),
                   !.loading = FALSE ]

\* handleSort up to its await.  The Run button is disabled while loading and
\* for a blank input.
handleSort ==
  /\ ToolRendered
  /\ ~ (topicSorter.loading \/ Trim(topicSorter.inputText) = << >>)
  /\ Len(calls) < MaxOutstanding
  /\ IF Trim(topicSorter.inputText) = << >>
     THEN UNCHANGED << app, topicSorter, calls >>
     ELSE IF ~ Truthy(Str(app.apiKey))
     THEN /\ topicSorter' =
               [ topicSorter EXCEPT
                   !.error = << "Please add your Gemini API Key in settings first." >> ]
          /\ app' = OpenSettingsOf(app)
          /\ calls' = calls
     ELSE \E titles \in { NormalizeTitles(topicSorter.inputText) } :
            \E ts \in { [ topicSorter EXCEPT !.loading = TRUE, !.error = << >>,
                                             !.categories = << JsonArray(<< >>) >> ] } :
              IF TooFewTitles(titles)
              THEN /\ topicSorter' =
                        [ ts EXCEPT !.error = << "Please enter at least 2 titles to categorize." >>,
                                    !.loading = FALSE ]
                   /\ UNCHANGED << app, calls >>
              ELSE \E st \in { BeforeAwait([ NotCategorizing EXCEPT
                                               !.pc = "call", !.titles = titles,
                                               !.apiKey = app.apiKey ]) } :
                     IF st.pc = "done"
                     THEN /\ topicSorter' = AfterCategorize(ts, st)
                          /\ app' = Rendered(app, AfterCategorize(ts, st))
                          /\ calls' = calls
                     ELSE /\ topicSorter' = ts
                          /\ calls' = Append(calls, [ invocation |-> st, mounted |-> TRUE ])
                          /\ app' = app
  /\ UNCHANGED << localStorage, notAppVars >>

\* The calls without the one at position i.
WithoutCall(cs, i) == SubSeq(cs, 1, i - 1) \o SubSeq(cs, i + 1, Len(cs))

\* The request of an awaited invocation settles: categorizeTitles runs on,
\* and so does the handleSort that awaits it when its TopicSorter is still
\* mounted (a state update of an unmounted component does nothing).
ResponseArrives ==
  /\ app.phase \in { "loaded", "crashed" }
  /\ \E i \in 1..Len(calls), outcome \in BackendOutcomes :
       \E st \in { AfterAwait(calls[i].invocation, outcome) } :
         /\ calls' = WithoutCall(calls, i)
         /\ IF calls[i].mounted /\ app.phase = "loaded"
            THEN \E ts \in { AfterCategorize(topicSorter, st) } :
                   /\ topicSorter' = ts
                   /\ app' = Rendered(app, ts)
            ELSE UNCHANGED << app, topicSorter >>
  /\ UNCHANGED << localStorage, notAppVars >>

\* App from its first render, in both builds.
AppInit ==
  /\ app \in { AppStart(build) : build \in Builds }
  /\ localStorage \in StoredKeys
  /\ topicSorter = TopicSorterStart
  /\ calls = << >>
  /\ BatcherInit
  /\ memo = MemoIdle
  /\ clipboardWrite = NothingCopied
  /\ alphaCall = NoAlphaCall
  /\ AnalyzerInit
  /\ ComparatorInit
  /\ ServicesIdle

AppNext ==
  \/ useEffect
  \/ ToggleMobileMenu
  \/ CloseMobileMenu
  \/ ClickNavItem
  \/ openSettings
  \/ ChangeTempKey
  \/ ToggleShowKey
  \/ handleSaveKey
  \/ handleClearKey
  \/ CloseKeyModal
  \/ ChangePasswordInput
  \/ handlePasswordSubmit
  \/ ClosePasswordModal

SpecApp == AppInit /\ [][AppNext]_vars

\* TopicSorter in App.tsx, from the first render of App, with and without
\* a stored credential.
TopicSorterInit ==
  /\ app = AppStart("App.tsx")
  /\ localStorage \in { << >>, << << "k" >> >> }
  /\ topicSorter = TopicSorterStart
  /\ calls = << >>
  /\ BatcherInit
  /\ memo = MemoIdle
  /\ clipboardWrite = NothingCopied
  /\ alphaCall = NoAlphaCall
  /\ AnalyzerInit
  /\ ComparatorInit
  /\ ServicesIdle

TopicSorterNext ==
  \/ useEffect
  \/ ClickNavItem
  \/ setInputText
  \/ handleSort
  \/ ResponseArrives

SpecTopicSorter == TopicSorterInit /\ [][TopicSorterNext]_vars

\* The request of generateContent settles in the end, so an awaited
\* invocation is not awaited for ever.
SpecTopicSorterLive == TopicSorterInit /\ [][TopicSorterNext]_vars /\ WF_vars(ResponseArrives)

(***************************************************************************)
(* Properties of the Batcher.                                              *)
(***************************************************************************)
SizesOf(sets) == [ k \in 1..Len(sets) |-> Len(sets[k].items) ]

ItemsOf(sets) == [ k \in 1..Len(sets) |-> sets[k].items ]

\* C1: for a non-empty line sequence, in every mode and for every value, the
\* sets carry the ids 0..k-1 in order and their items, concatenated in id
\* order, are exactly the normalized input lines.
C1_PartitionComplete ==
  LET lines == Normalize(batcherInputText)
      sets == processedData(batcherInputText, mode, inputValue).sets
  IN  Len(lines) > 0 =>
        /\ Len(sets) >= 1
        /\ \A k \in 1..Len(sets) : sets[k].id = k - 1
        /\ Concat(ItemsOf(sets)) = lines

\* Five lines, not all alike, in three sets.
C1_Witness ==
  LET lines == Normalize(batcherInputText)
      sets == processedData(batcherInputText, mode, inputValue).sets
  IN  /\ Len(lines) = 5
      /\ lines[1] # lines[2]
      /\ SizesOf(sets) = << 2, 2, 1 >>

\* C2: in mode 'size' the group size is s = max(1, n): every set but the last
\* has exactly s items and the last has between 1 and s.
C2_CapacitySizes ==
  LET sets == memo.sets
      s == IF inputValue >= 1 THEN inputValue ELSE 1
  IN  (memo.pc = "done" /\ mode = "size" /\ Len(memo.lines) > 0) =>
        /\ memo.setSize = s
        /\ Len(sets) >= 1
        /\ \A k \in 1..(Len(sets) - 1) : Len(sets[k].items) = s
        /\ Len(sets[Len(sets)].items) \in 1..s

\* 25 lines with Capacity(10): sizes [10, 10, 5].
C2_Witness ==
  /\ memo.pc = "done"
  /\ mode = "size"
  /\ inputValue = 10
  /\ Len(memo.lines) = 25
  /\ SizesOf(memo.sets) = << 10, 10, 5 >>

\* C3: in mode 'count' the group size is s = ceil(|lines| / max(1, n)), only
\* the last set may be smaller than s, and for n >= 1 there are at most n sets.
C3_FixedCountSizes ==
  LET sets == memo.sets
      len == Len(memo.lines)
      n == IF inputValue >= 1 THEN inputValue ELSE 1
      s == memo.setSize
  IN  (memo.pc = "done" /\ mode = "count" /\ len > 0) =>
        /\ (s - 1) * n < len
        /\ len <= s * n
        /\ Len(sets) >= 1
        /\ \A k \in 1..(Len(sets) - 1) : Len(sets[k].items) = s
        /\ Len(sets[Len(sets)].items) \in 1..s
        /\ inputValue >= 1 => Len(sets) <= inputValue

\* 25 lines with FixedCount(4): sizes [7, 7, 7, 4].
C3_Witness ==
  /\ memo.pc = "done"
  /\ mode = "count"
  /\ inputValue = 4
  /\ Len(memo.lines) = 25
  /\ SizesOf(memo.sets) = << 7, 7, 7, 4 >>

\* C4: for every integer n, n <= 0 included, and in both modes, the group
\* size is at least 1, no set is ever empty, the loop never makes more sets
\* than there are lines, and it terminates.
C4_ClampTerminates ==
  /\ [](memo.pc # "idle" => memo.setSize >= 1)
  /\ [](\A k \in 1..Len(memo.sets) : Len(memo.sets[k].items) >= 1)
  /\ [](Len(memo.sets) <= Len(memo.lines))
  /\ <>(memo.pc = "done")

\* The loop has ended for n <= 0 in mode 'size', with one line in each set.
C4_Witness ==
  /\ memo.pc = "done"
  /\ mode = "size"
  /\ inputValue <= 0
  /\ Len(memo.sets) >= 2
  /\ Len(memo.sets) = Len(memo.lines)

\* C5: empty or white-space-only input yields no set at all and totalItems 0,
\* in every mode and for every value.
C5_EmptyInputNoSets ==
  Trim(batcherInputText) = << >> =>
    processedData(batcherInputText, mode, inputValue) = [ sets |-> << >>, totalItems |-> 0 ]

\* A text of blank lines only, in mode 'count'.
C5_Witness ==
  /\ Len(batcherInputText) >= 3
  /\ Trim(batcherInputText) = << >>
  /\ mode = "count"
  /\ processedData(batcherInputText, mode, inputValue).sets = << >>

\* The value of a bijective base-26 numeral: digits A = 1 .. Z = 26.
LetterRank(c) == CHOOSE k \in 1..26 : UpperCase[k] = c

RECURSIVE BijectiveValue(_)
BijectiveValue(label) ==
  IF Len(label) = 0 THEN 0
  ELSE 26 * BijectiveValue(SubSeq(label, 1, Len(label) - 1)) + LetterRank(label[Len(label)])

\* C6: getAlphaLabel(id) is the bijective base-26 numeral of id + 1: not
\* empty, of letters A..Z only, of value id + 1, unlike the label of any
\* smaller id; 0 -> A, 25 -> Z, 26 -> AA, 701 -> ZZ, 702 -> AAA.
C6_AlphaLabelBijective ==
  alphaCall.pc = "returned" =>
    /\ Len(alphaCall.label) >= 1
    /\ \A k \in 1..Len(alphaCall.label) : \E r \in 1..26 : alphaCall.label[k] = UpperCase[r]
    /\ BijectiveValue(alphaCall.label) = alphaCall.index + 1
    /\ \A j \in 0..(alphaCall.index - 1) : getAlphaLabel(j) # alphaCall.label
    /\ alphaCall.index = 0 => alphaCall.label = << "A" >>
    /\ alphaCall.index = 25 => alphaCall.label = << "Z" >>
    /\ alphaCall.index = 26 => alphaCall.label = << "A", "A" >>
    /\ alphaCall.index = 701 => alphaCall.label = << "Z", "Z" >>
    /\ alphaCall.index = 702 => alphaCall.label = << "A", "A", "A" >>

\* The label of id 702 has been computed.
C6_Witness ==
  /\ alphaCall.pc = "returned"
  /\ alphaCall.index = 702
  /\ alphaCall.label = << "A", "A", "A" >>

\* C7: the copied text has one line per item of the set, joined by line
\* feeds; the line of the item at offset j of set g is the optional
\* "{index}. ", then the optional "{prefix} ", then the item, where index is
\* the sizes of the sets before g plus j + 1, the 1-based position of the
\* item in the whole input; the display shows the same index.
C7_CopyFormat ==
  clipboardWrite.setIndex >= 0 =>
    \A g \in { clipboardWrite.setIndex } :
    \A lines \in { Normalize(batcherInputText) } :
    \A sets \in { processedData(batcherInputText, mode, inputValue).sets } :
    \A before \in { Len(Concat(ItemsOf(SubSeq(sets, 1, g)))) } :
    \A out \in { Split(clipboardWrite.text) } :
      /\ Len(out) = Len(sets[g + 1].items)
      /\ \A j \in 1..Len(out) :
           /\ before + j <= Len(lines)
           /\ sets[g + 1].items[j] = lines[before + j]
           /\ displayedIndex(g, j - 1, sets) = before + j
           /\ DecimalValue(ToDecimal(before + j)) = before + j
           /\ out[j] = (IF useIndexing THEN ToDecimal(before + j) \o << ".", " " >> ELSE << >>)
                         \o (IF prefix = << >> THEN << >> ELSE prefix \o << " " >>)
                         \o lines[before + j]

\* A later set copied with numbering and a prefix, its first item the 11th line.
C7_Witness ==
  /\ clipboardWrite.setIndex >= 1
  /\ useIndexing
  /\ prefix = << "P" >>
  /\ Len(clipboardWrite.text) > 8
  /\ SubSeq(clipboardWrite.text, 1, 6) = << "1", "1", ".", " ", "P", " " >>
  /\ \E k \in 1..Len(clipboardWrite.text) : clipboardWrite.text[k] = LF

(***************************************************************************)
(* Properties of the Analyzer.                                             *)
(***************************************************************************)
Occurrences(lines, x) == Cardinality({ k \in 1..Len(lines) : lines[k] = x })

FirstOccurrence(lines, x) ==
  CHOOSE k \in 1..Len(lines) : lines[k] = x /\ \A o \in 1..(k - 1) : lines[o] # x

RECURSIVE SumCounts(_)
SumCounts(items) ==
  IF Len(items) = 0 THEN 0 ELSE items[1].count.num + SumCounts(Tail(items))

\* C8: for every input handleAnalyze accepts, total is the number of
\* non-blank lines, unique + duplicates = total, and the counts of the
\* frequencyMap records are numbers whose sum is total.
C8_FrequencyInvariant ==
  result # << >> =>
    \A r \in { result[1] } :
    \A lines \in { Normalize(analyzerInputText) } :
      /\ r.stats.total = Len(lines)
      /\ r.stats.unique + r.stats.duplicates = r.stats.total
      /\ \A k \in 1..Len(r.frequencyMap) : r.frequencyMap[k].count.type = "number"
      /\ SumCounts(r.frequencyMap) = r.stats.total

\* The one line __proto__ analyzed: total 1 and an empty frequency table.
C8_Witness ==
  /\ analyzerInputText = ProtoKey
  /\ result # << >>
  /\ result[1].stats.total = 1
  /\ result[1].stats.unique + result[1].stats.duplicates = 1
  /\ result[1].frequencyMap = << >>

\* C9: in every result unique = |uniqueList| = |frequencyMap|, every distinct
\* line has exactly one record, and the count of each record is an integer
\* >= 1, the number of occurrences of its title in the input.
C9_OneRecordPerLine ==
  result # << >> =>
    \A r \in { result[1] } :
    \A lines \in { Normalize(analyzerInputText) } :
      /\ r.stats.unique = Len(r.uniqueList)
      /\ r.stats.unique = Len(r.frequencyMap)
      /\ \A x \in Range(lines) :
           Cardinality({ k \in 1..Len(r.frequencyMap) : r.frequencyMap[k].title = x }) = 1
      /\ \A k \in 1..Len(r.frequencyMap) :
           /\ r.frequencyMap[k].title \in Range(lines)
           /\ r.frequencyMap[k].count.type = "number"
           /\ r.frequencyMap[k].count.num >= 1
           /\ r.frequencyMap[k].count.num = Occurrences(lines, r.frequencyMap[k].title)

\* The one line valueOf analyzed: one record, its count a string.
C9_Witness ==
  /\ analyzerInputText = << "v", "a", "l", "u", "e", "O", "f" >>
  /\ result # << >>
  /\ result[1].stats.unique = 1
  /\ Len(result[1].frequencyMap) = 1
  /\ result[1].frequencyMap[1].count.type = "string"
  /\ result[1].frequencyMap[1].count.str =
       << "function ", "v", "a", "l", "u", "e", "O", "f", "() { [native code] }", "1" >>

\* C10: the frequency table is in descending order of count, and of two
\* records with the same count the one whose title occurs first in the input
\* comes first, also for lines that look like integers.
C10_CountDescendingStable ==
  result # << >> =>
    \A fm \in { result[1].frequencyMap } :
    \A lines \in { Normalize(analyzerInputText) } :
      \A i, j \in 1..Len(fm) :
        (i < j /\ fm[i].count.type = "number" /\ fm[j].count.type = "number") =>
          /\ fm[i].count.num >= fm[j].count.num
          /\ fm[i].count.num = fm[j].count.num =>
               FirstOccurrence(lines, fm[i].title) < FirstOccurrence(lines, fm[j].title)

\* The lines b, 2 analyzed: both once, and 2 is listed before b.
C10_Witness ==
  /\ analyzerInputText = << "b", LF, "2" >>
  /\ result # << >>
  /\ result[1].frequencyMap =
       << [ title |-> << "2" >>, count |-> Num(1) ], [ title |-> << "b" >>, count |-> Num(1) ] >>

RECURSIVE LexBefore(_, _)
\* a comes strictly before b in the lexicographic order of the code units.
LexBefore(a, b) ==
  IF Len(b) = 0 THEN FALSE
  ELSE IF Len(a) = 0 THEN TRUE
  ELSE IF CodeUnit(a[1]) # CodeUnit(b[1]) THEN CodeUnit(a[1]) < CodeUnit(b[1])
  ELSE LexBefore(Tail(a), Tail(b))

\* C11: uniqueList holds every distinct input line exactly once, in strictly
\* ascending lexicographic order, and duplicateList is the titles of the
\* frequency-table records whose count is a number above 1, in the order of
\* the table.
C11_UniqueAndDuplicateLists ==
  result # << >> =>
    \A r \in { result[1] } :
    \A lines \in { Normalize(analyzerInputText) } :
      /\ Range(r.uniqueList) = Range(lines)
      /\ \A k \in 1..(Len(r.uniqueList) - 1) : LexBefore(r.uniqueList[k], r.uniqueList[k + 1])
      /\ \E pick \in SUBSET (1..Len(r.frequencyMap)) :
           /\ \A k \in 1..Len(r.frequencyMap) :
                k \in pick <=> (r.frequencyMap[k].count.type = "number"
                                /\ r.frequencyMap[k].count.num > 1)
           /\ Len(r.duplicateList) = Cardinality(pick)
           /\ \A k \in pick :
                r.duplicateList[Cardinality({ o \in pick : o <= k })] = r.frequencyMap[k].title

\* Three distinct lines out of order, one of them twice.
C11_Witness ==
  /\ result # << >>
  /\ Normalize(analyzerInputText) = << << "b" >>, << "a" >>, << "a" >>, << "2" >> >>
  /\ result[1].uniqueList = << << "2" >>, << "a" >>, << "b" >> >>
  /\ result[1].duplicateList = << << "a" >> >>

\* C12: handleAnalyze never stores a result for an empty line list: the
\* result changes only in a step taken with text that is not blank, the new
\* result is the one of a line list of at least one line, and so every stored
\* result has stats.total >= 1.
C12_NoEmptyLineSet ==
  /\ [][result' # result =>
          /\ Trim(analyzerInputText) # << >>
          /\ Len(Normalize(analyzerInputText)) >= 1
          /\ result'[1].stats.total = Len(Normalize(analyzerInputText))]_vars
  /\ [](result # << >> => result[1].stats.total >= 1)

\* A result of two lines is still there while the textarea holds white space
\* only: Analyze in this state changes nothing.
C12_Witness ==
  /\ result # << >>
  /\ result[1].stats.total = 2
  /\ Len(analyzerInputText) >= 1
  /\ Trim(analyzerInputText) = << >>

(***************************************************************************)
(* Properties of the Comparator.                                           *)
(***************************************************************************)
\* unique(text): the set of the normalized lines of a text.
LineSetOf(text) == Range(Normalize(text))

DuplicateFree(list) == Len(list) = Cardinality(Range(list))

\* C13: intersection, aOnly and bOnly hold unique(A) \cap unique(B),
\* unique(A) \ unique(B) and unique(B) \ unique(A); no list repeats a line,
\* no line is in two lists, and together they hold the union.
C13_ThreeWayPartition ==
  comparisonResult # << >> =>
    \A r \in { comparisonResult[1] } :
    \A A \in { LineSetOf(listA) } :
    \A B \in { LineSetOf(listB) } :
      /\ Range(r.intersection) = A \cap B
      /\ Range(r.aOnly) = A \ B
      /\ Range(r.bOnly) = B \ A
      /\ DuplicateFree(r.intersection) /\ DuplicateFree(r.aOnly) /\ DuplicateFree(r.bOnly)
      /\ Range(r.intersection) \cap Range(r.aOnly) = {}
      /\ Range(r.intersection) \cap Range(r.bOnly) = {}
      /\ Range(r.aOnly) \cap Range(r.bOnly) = {}
      /\ Range(r.intersection) \cup Range(r.aOnly) \cup Range(r.bOnly) = A \cup B

\* A = [a, b, a] and B = [C, b]: one common line, one on each side only.
C13_Witness ==
  /\ comparisonResult # << >>
  /\ Normalize(listA) = << << "a" >>, << "b" >>, << "a" >> >>
  /\ Normalize(listB) = << << "C" >>, << "b" >> >>
  /\ comparisonResult[1].intersection = << << "b" >> >>
  /\ comparisonResult[1].aOnly = << << "a" >> >>
  /\ comparisonResult[1].bOnly = << << "C" >> >>

\* C14: totalA and totalB count the distinct lines of each side, the other
\* three stats are the lengths of the three lists, and inBoth + inAOnly =
\* totalA, inBoth + inBOnly = totalB.
C14_StatsOfDistinctLines ==
  comparisonResult # << >> =>
    \A r \in { comparisonResult[1] } :
      /\ r.stats.totalA = Cardinality(LineSetOf(listA))
      /\ r.stats.totalB = Cardinality(LineSetOf(listB))
      /\ r.stats.inBoth = Len(r.intersection)
      /\ r.stats.inAOnly = Len(r.aOnly)
      /\ r.stats.inBOnly = Len(r.bOnly)
      /\ r.stats.inBoth + r.stats.inAOnly = r.stats.totalA
      /\ r.stats.inBoth + r.stats.inBOnly = r.stats.totalB

\* Three raw lines with one repeated on side A: totalA is 2, not 3.
C14_Witness ==
  /\ comparisonResult # << >>
  /\ Len(Normalize(listA)) = 3
  /\ comparisonResult[1].stats.totalA = 2
  /\ comparisonResult[1].stats.totalB = 3
  /\ comparisonResult[1].stats.inBoth = 2

\* The texts made from the lines by exchanging two neighbours or by writing
\* one of the lines once more at the end.
Rearranged(lines) ==
  { Join([ k \in 1..Len(lines) |->
             IF k = p THEN lines[p + 1] ELSE IF k = p + 1 THEN lines[p] ELSE lines[k] ],
         << LF >>) : p \in 1..(Len(lines) - 1) }
  \cup { Join(Append(lines, lines[p]), << LF >>) : p \in 1..Len(lines) }

Ascending(list) == \A k \in 1..(Len(list) - 1) : LexBefore(list[k], list[k + 1])

\* C15: each of the three lists is in strictly ascending lexicographic order,
\* and the result is the same when two neighbouring lines of A or of B are
\* exchanged or a line is repeated (and so under every reordering and
\* repetition, each being a chain of such steps).
C15_SortedAndOrderIndependent ==
  comparisonResult # << >> =>
    \A r \in { comparisonResult[1] } :
      /\ Ascending(r.intersection) /\ Ascending(r.aOnly) /\ Ascending(r.bOnly)
      /\ \A textA \in Rearranged(Normalize(listA)) : ComparisonResultOf(textA, listB) = r
      /\ \A textB \in Rearranged(Normalize(listB)) : ComparisonResultOf(listA, textB) = r

\* A = [b, a, C] against B = [a]: aOnly comes out as [C, b].
C15_Witness ==
  /\ comparisonResult # << >>
  /\ Normalize(listA) = << << "b" >>, << "a" >>, << "C" >> >>
  /\ Normalize(listB) = << << "a" >> >>
  /\ comparisonResult[1].aOnly = << << "C" >>, << "b" >> >>
  /\ comparisonResult[1].intersection = << << "a" >> >>

\* The number of tenths of a percent a text of the form d..d.d% writes.
TenthsOf(text) == DecimalValue(SelectSeq(text, LAMBDA c : c \in Range(Digits)))

\* C16: two lists without lines give three empty lists, all-zero stats and
\* the text 0.0%; for all inputs the text is digits, a point, a digit and %,
\* never NaN or Infinity, the nearest tenth of a percent to
\* |A \cap B| / |A \cup B| (0 for the empty union), between 0.0% and 100.0%.
C16_SimilarityGuarded ==
  comparisonResult # << >> =>
    \A r \in { comparisonResult[1] } :
    \A text \in { SimilarityText(comparisonResult[1]) } :
    \A both \in { Cardinality(LineSetOf(listA) \cap LineSetOf(listB)) } :
    \A union \in { Cardinality(LineSetOf(listA) \cup LineSetOf(listB)) } :
      /\ union = 0 =>
           /\ r.intersection = << >> /\ r.aOnly = << >> /\ r.bOnly = << >>
           /\ r.stats = [ inBoth |-> 0, inAOnly |-> 0, inBOnly |-> 0, totalA |-> 0, totalB |-> 0 ]
           /\ text = << "0", ".", "0", "%" >>
      /\ Len(text) >= 4
      /\ text[Len(text)] = "%"
      /\ text[Len(text) - 2] = "."
      /\ \A k \in (1..Len(text)) \ { Len(text) - 2, Len(text) } : text[k] \in Range(Digits)
      /\ text = ToDecimal(TenthsOf(text) \div 10) \o << "." >> \o ToDecimal(TenthsOf(text) % 10)
                  \o << "%" >>
      /\ TenthsOf(text) \in 0..1000
      /\ union > 0 =>
           /\ 2 * TenthsOf(text) * union <= 2 * 1000 * both + union
           /\ 2 * TenthsOf(text) * union >= 2 * 1000 * both - union

\* Two blank texts, not both empty, compared.
C16_Witness ==
  /\ comparisonResult # << >>
  /\ Len(listA) >= 1
  /\ Normalize(listA) = << >>
  /\ Normalize(listB) = << >>
  /\ comparisonResult[1].stats.totalA + comparisonResult[1].stats.totalB = 0
  /\ SimilarityText(comparisonResult[1]) = << "0", ".", "0", "%" >>

SameRawLine(text, a, b) == \A m \in a..b : text[m] # LF

\* The positions of the first character that is not white space of each raw
\* line of text that has one.
LineStarts(text) ==
  { k \in 1..Len(text) :
      /\ text[k] \notin WhiteSpace
      /\ \A j \in 1..(k - 1) : SameRawLine(text, j, k) => text[j] \in WhiteSpace }

\* The position of the last character that is not white space of the raw
\* line that position s is in.
LineEnd(text, s) ==
  CHOOSE k \in s..Len(text) :
    /\ text[k] \notin WhiteSpace
    /\ SameRawLine(text, s, k)
    /\ \A o \in (k + 1)..Len(text) : SameRawLine(text, s, o) => text[o] \in WhiteSpace

\* C18: the normalization of every tool returns the raw lines of the text
\* that are not blank, each from its first to its last character that is not
\* white space, in the order of the text, repeated lines kept; so no element
\* is empty or begins or ends with white space, and a blank text gives the
\* empty sequence.
C18_NormalizeExact ==
  normalizeCall.pc = "returned" =>
    \A text \in { normalizeCall.text } :
    \A lines \in { normalizeCall.lines } :
    \A starts \in { LineStarts(normalizeCall.text) } :
      /\ Len(lines) = Cardinality(starts)
      /\ \A s \in starts :
           lines[Cardinality({ o \in starts : o <= s })] = SubSeq(text, s, LineEnd(text, s))
      /\ \A k \in 1..Len(lines) :
           /\ Len(lines[k]) >= 1
           /\ lines[k][1] \notin WhiteSpace
           /\ lines[k][Len(lines[k])] \notin WhiteSpace
           /\ LF \notin Range(lines[k])
      /\ (\A k \in 1..Len(text) : text[k] \in WhiteSpace) => lines = << >>

\* TopicSorter's form on a padded line, a blank line and the same line again.
C18_Witness ==
  /\ normalizeCall.pc = "returned"
  /\ normalizeCall.tool = "topicSorter"
  /\ normalizeCall.text = << " ", "a", "\r", LF, " ", LF, "a" >>
  /\ normalizeCall.lines = << << "a" >>, << "a" >> >>

\* C19: the lines of a text, written out one per line and normalized again,
\* are the same lines.
C19_NormalizeIdempotent ==
  normalizeCall.pc = "again" => normalizeCall.again = normalizeCall.lines

\* A text that normalization changes, normalized twice.
C19_Witness ==
  /\ normalizeCall.pc = "again"
  /\ normalizeCall.tool = "analyzer"
  /\ normalizeCall.text = << "\t", " ", "b", LF, LF, "a", " ", "b" >>
  /\ normalizeCall.again = << << "b" >>, << "a", " ", "b" >> >>

(***************************************************************************)
(* Properties of categorizeTitles.                                         *)
(***************************************************************************)
\* C20: with an empty credential categorizeTitles rejects with the
\* missing-credential error and has issued no request, whatever the titles,
\* none included; it never awaits anything.
C20_MissingCredentialFirst ==
  (categorize.pc # "idle" /\ categorize.apiKey = << >>) =>
    /\ categorize.requests = << >>
    /\ categorize.pc \in { "call", "done" }
    /\ categorize.pc = "done" =>
         /\ categorize.outcome.settled = "rejected"
         /\ categorize.outcome.error = "API Key is missing. Please configure it in the settings."
         /\ categorize.logged = 0

\* Failed for the empty credential with no titles at all.
C20_Witness ==
  /\ categorize.pc = "done"
  /\ categorize.apiKey = << >>
  /\ categorize.titles = << >>
  /\ categorize.outcome.settled = "rejected"
  /\ categorize.requests = << >>

\* C21: with a credential (a blank one included) and no titles,
\* categorizeTitles returns { categories: [] } in its first step: it issues
\* no request, awaits nothing and logs nothing.
C21_EmptyTitlesNoRequest ==
  (categorize.pc # "idle" /\ categorize.apiKey # << >> /\ categorize.titles = << >>) =>
    /\ categorize.requests = << >>
    /\ categorize.response = << >>
    /\ categorize.pc \in { "call", "done" }
    /\ categorize.pc = "done" =>
         /\ categorize.outcome.settled = "fulfilled"
         /\ categorize.outcome.value =
              << JsonObject(<< [ key |-> CategoriesKey, value |-> JsonArray(<< >>) ] >>) >>
         /\ categorize.logged = 0

\* Returned for the credential "k" and no titles.
C21_Witness ==
  /\ categorize.pc = "done"
  /\ categorize.apiKey = << "k" >>
  /\ categorize.titles = << >>
  /\ categorize.outcome.settled = "fulfilled"
  /\ categorize.requests = << >>

\* C22: the request lists the first 500 of the titles handed in, in their
\* order, when there are more than 500, and all of them, in their order,
\* when there are 500 or fewer.
C22_FirstTitlesOnly ==
  \A k \in 1..Len(categorize.requests) :
    \A sent \in { categorize.requests[k].titles } :
      /\ Len(categorize.titles) > 500 => Len(sent) = 500
      /\ Len(categorize.titles) <= 500 => Len(sent) = Len(categorize.titles)
      /\ \A i \in 1..Len(sent) : sent[i] = categorize.titles[i]

\* A request for 502 titles that lists 500 of them, the last one "500".
C22_Witness ==
  /\ Len(categorize.titles) = 502
  /\ Len(categorize.requests) = 1
  /\ Len(categorize.requests[1].titles) = 500
  /\ categorize.requests[1].titles[500] = << "5", "0", "0" >>

\* C23: a returned text that is not JSON, or that is JSON which does not
\* match the response schema, makes categorizeTitles fail; what it returns
\* after a request matches the schema.
C23_OnlySchemaValuesReturned ==
  (categorize.pc = "done" /\ categorize.response # << >>) =>
    \A r \in { categorize.response[1] } :
      /\ (~ r.failed /\ r.text # << >> /\ r.text[1] # << >>
            /\ ~ (JsonParse(r.text[1]).ok /\ MatchesSchema(JsonParse(r.text[1]).value)))
           => categorize.outcome.settled = "rejected"
      /\ categorize.outcome.settled = "fulfilled" =>
           MatchesSchema(categorize.outcome.value[1])

\* The returned text [] is JSON outside the schema, and it is returned.
C23_Witness ==
  /\ categorize.pc = "done"
  /\ categorize.response = << [ failed |-> FALSE, text |-> << << "[", "]" >> >> ] >>
  /\ categorize.outcome.settled = "fulfilled"
  /\ categorize.outcome.value = << JsonArray(<< >>) >>

\* C24: an invocation issues at most one request; a failed request, a
\* response without text and a text JSON.parse rejects each end it rejected
\* with an error, after exactly one request and one console.error.
C24_OneRequestNoRetry ==
  /\ Len(categorize.requests) <= 1
  /\ categorize.pc = "awaiting" => Len(categorize.requests) = 1
  /\ (categorize.pc = "done" /\ categorize.response # << >>) =>
       \A r \in { categorize.response[1] } :
         (r.failed \/ r.text = << >> \/ r.text[1] = << >> \/ ~ JsonParse(r.text[1]).ok) =>
           /\ categorize.outcome.settled = "rejected"
           /\ categorize.outcome.error # ""
           /\ categorize.outcome.value = << >>
           /\ Len(categorize.requests) = 1
           /\ categorize.logged = 1

\* Rejected after one request that failed.
C24_Witness ==
  /\ categorize.pc = "done"
  /\ categorize.response = << [ failed |-> TRUE, text |-> << >> ] >>
  /\ categorize.outcome.settled = "rejected"
  /\ Len(categorize.requests) = 1

(***************************************************************************)
(* Properties of TopicSorter.                                              *)
(***************************************************************************)
\* C25: a handleSort on fewer than 2 titles sends no request, reports the
\* error message, and leaves no categories and loading false; every request
\* that is awaited lists at least 2 titles.
C25_TooFewTitlesNoRequest ==
  /\ [](\A i \in 1..Len(calls) :
          /\ Len(calls[i].invocation.titles) >= 2
          /\ Len(calls[i].invocation.requests) = 1)
  /\ [][(handleSort /\ Len(NormalizeTitles(topicSorter.inputText)) < 2) =>
          /\ calls' = calls
          /\ topicSorter'.error = << "Please enter at least 2 titles to categorize." >>
          /\ topicSorter'.categories = << JsonArray(<< >>) >>
          /\ ~ topicSorter'.loading]_vars

\* One title and a blank line were submitted: the message, and no request.
C25_Witness ==
  /\ topicSorter.inputText = << "a", LF, " " >>
  /\ topicSorter.error = << "Please enter at least 2 titles to categorize." >>
  /\ topicSorter.categories = << JsonArray(<< >>) >>
  /\ ~ topicSorter.loading
  /\ calls = << >>

\* C26: whenever TopicSorter is loading, it later is not loading and the
\* page is still rendered, so that a new handleSort can be started.
C26_FailureLeavesUiUsable ==
  topicSorter.loading ~> (~ topicSorter.loading /\ app.phase = "loaded")

\* The response [] has been taken: categories is undefined, the render has
\* thrown and the page is gone.
C26_Witness ==
  /\ app.phase = "crashed"
  /\ topicSorter.categories = << >>
  /\ ~ topicSorter.loading
  /\ topicSorter.error = << >>

\* C29: at most one invocation of categorizeTitles made by the TOPICS view
\* is awaited at any time.
C29_OneOutstanding == Len(calls) <= 1

\* Two requests in flight: the one of the TopicSorter that was left, and
\* the one of the TopicSorter mounted now.
C29_Witness ==
  /\ Len(calls) = 2
  /\ ~ calls[1].mounted
  /\ calls[2].mounted
  /\ calls[1].invocation.pc = "awaiting"
  /\ calls[2].invocation.pc = "awaiting"
  /\ topicSorter.loading

(***************************************************************************)
(* Properties of App.                                                      *)
(***************************************************************************)
\* The value under the key, the empty string when there is none.
StoredOrEmpty == IF localStorage = << >> THEN << >> ELSE localStorage[1]

\* C27: after the load of the mount the credential of App equals the stored
\* value (empty when absent); the two change only by a Save of a non-blank
\* input, to the trimmed input, and by a Remove, to nothing; a Save of a
\* blank input and the closing of the modal change neither.
C27_CredentialMirrorsStore ==
  /\ [](app.phase = "loaded" => app.apiKey = StoredOrEmpty)
  /\ [][(app.phase = "loaded" /\ (app'.apiKey # app.apiKey \/ localStorage' # localStorage)) =>
          /\ app.isKeyModalOpen
          /\ \/ /\ Trim(app.tempKey) # << >>
                /\ app'.apiKey = Trim(app.tempKey)
                /\ localStorage' = << Trim(app.tempKey) >>
             \/ /\ app.apiKey # << >>
                /\ app'.apiKey = << >>
                /\ localStorage' = << >>]_vars
  /\ [][((handleSaveKey /\ Trim(app.tempKey) = << >>) \/ CloseKeyModal) =>
          /\ app'.apiKey = app.apiKey
          /\ localStorage' = localStorage]_vars

\* The input " q " was saved: "q" is stored and is the credential.
C27_Witness ==
  /\ app.phase = "loaded"
  /\ localStorage = << << "q" >> >>
  /\ app.apiKey = << "q" >>
  /\ ~ app.isKeyModalOpen

\* C28: App loaded with the empty string under the key is never in the
\* state of App loaded with nothing under the key.
C28_AbsentAndEmptyDistinguished ==
  (app.phase = "loaded" /\ localStorage = << << >> >>) =>
    app # [ AppStart(app.build) EXCEPT !.phase = "loaded",
                                       !.apiKey = LoadedKey(<< >>, << >>) ]

\* Loaded with the empty string under the key: no credential, as with none.
C28_Witness ==
  /\ app.phase = "loaded"
  /\ localStorage = << << >> >>
  /\ app.apiKey = << >>
  /\ app.currentView = "ANALYZER"
  /\ ~ app.isKeyModalOpen

\* C30: in part_000 the TOPICS view implies isAIUnlocked; the view is
\* unlocked and first entered by a submission of the admin password only; a
\* submission of anything else sets passwordError and changes neither the
\* view nor isAIUnlocked; isAIUnlocked never turns false again.
C30_TopicsOnlyUnlocked ==
  /\ []((app.build = "part_000" /\ app.currentView = "TOPICS") => app.isAIUnlocked)
  /\ [][app.build = "part_000" =>
          /\ (app.isAIUnlocked => app'.isAIUnlocked)
          /\ (~ app.isAIUnlocked /\ (app'.isAIUnlocked \/ app'.currentView = "TOPICS")) =>
               /\ app.isPasswordModalOpen
               /\ app.passwordInput = ADMIN_PASSWORD
               /\ app'.isAIUnlocked
               /\ app'.currentView = "TOPICS"
          /\ (handlePasswordSubmit /\ app.passwordInput # ADMIN_PASSWORD) =>
               /\ app'.passwordError
               /\ app'.currentView = app.currentView
               /\ app'.isAIUnlocked = app.isAIUnlocked]_vars

\* The password was refused once ("hc") and accepted later.
C30_Witness ==
  /\ app.build = "part_000"
  /\ app.currentView = "TOPICS"
  /\ app.isAIUnlocked
  /\ ~ app.isPasswordModalOpen

\* A refused submission: the error is shown, the view is still locked.
C30_RefusedWitness ==
  /\ app.build = "part_000"
  /\ app.passwordError
  /\ app.passwordInput = << "h", "c" >>
  /\ ~ app.isAIUnlocked
  /\ app.currentView # "TOPICS"

====
